---------------------------- MODULE Spec2Model ----------------------------
(***************************************************************************)
(* A model of the Pintos file-system core of mcpads/pintos_filesys:        *)
(*   - the write-back buffer cache            (src/src/filesys/cache.c)    *)
(*   - the indexed inode layer                (src/unnamed/part_003)       *)
(*   - the file-system glue                   (src/unnamed/part_001)       *)
(*                                                                         *)
(* The cache is modelled as a set of concurrent kernel threads (clients,   *)
(* read-ahead helpers, the write-back thread).  One action is one          *)
(* preemption-free stretch of a function; the stretches are cut at every   *)
(* point where the code gives up a lock, waits, or does device I/O.        *)
(*                                                                         *)
(* The inode layer is modelled one call per action over a cache that keeps *)
(* what the calls can observe of it: the block cached for each sector, and *)
(* the sectors a read-ahead helper has claimed and not yet loaded.         *)
(***************************************************************************)
EXTENDS Integers, Sequences, FiniteSets, TLC

(***************************************************************************)
(* Sizes of the model.  MAX_CACHE_SIZE is 64 in cache.h; the pool is       *)
(* scaled down, every algorithm is kept as written.                        *)
(***************************************************************************)
MaxCacheSize == 3
NumSectors == 4
MaxValue == 1
MaxClients == 2
MaxHelpers == 1
\* the number of cache_read / cache_write calls one run issues
MaxCalls == 3
\* ... and in the runs that watch the LRU order (reads only, no write-back)
MaxCallsLRU == 5

\* ---- the inode layer: scaled geometry (512, 10, 10 in the source) and the
\*      size of the device, in sectors
BLOCK_SECTOR_SIZE == 2
NUM_OF_DIRECTS == 2
NUM_OF_INDIRECTS == 2
DeviceSize == 20
\* the number of file-system calls one run issues, and of openers of an inode
MaxOps == 5
MaxOpen == 2
\* free sectors of the nearly full device
SpareSectors == 6
\* the arguments of the calls
Names == {"a"}
CreateSizes == {0, 3}
WriteSizes == {1, 3}
WriteOffsets == {0, 5, 13}
ReadSizes == {2, 5, 10}
ReadOffsets == {0, 3}

\* enum buf_flag_t
B_VALID == 0
B_BUSY == 1
B_DIRTY == 2
B_WRITER == 4

\* (block_sector_t) -1: "no sector"
NONE == -1
\* the sector of the root directory's inode
ROOT_DIR_SECTOR == 1

Entries == 0 .. (MaxCacheSize - 1)
Sectors == 0 .. (NumSectors - 1)
Values == 0 .. MaxValue
Clients == 1 .. MaxClients
Helpers == (MaxClients + 1) .. (MaxClients + MaxHelpers)
Procs == Clients \cup Helpers
\* ghost value: "the specification does not say what a read returns here"
Unknown == MaxValue + 1

VARIABLES
  \* ---- struct cache_e _cache_buffer[MAX_CACHE_SIZE], struct list cache
  sec, flag, data, reader_count, cache_lock, lru,
  \* ---- the block device below the cache
  device,
  \* ---- kernel threads inside the cache: th[t] holds the program counter and
  \*      the locals of thread t; sema[t] is the semaphore sema1 of t's load
  th, sema,
  \* ---- cacheWriteBackThread
  fl_pc, fl_i,
  \* ---- kernel state
  panicked, shutdown,
  \* ---- ghost variables (history, not program state)
  latest, expect, wover, since, calls,
  \* ---- the file system above the cache: the free-map, the cache as the inode
  \*      layer sees it (blk, ahead), the list of open inodes, the root directory
  free_map, blk, ahead, open_inodes, dir,
  \* ---- ghost variables of the file system: the last call, the last release
  \*      of a removed inode, the sectors and the bytes each file should have,
  \*      the last hole a write left
  last, rel, owned, content, hole,
  \* ---- struct list open_inodes as concurrent callers of inode_open see it,
  \*      and the position of each caller inside inode_open
  olist, opn,
  \* ---- the inodes of the directory tree, each thread's current_dir, the
  \*      static next_fd of allocate_fd, each thread's fd_list
  tree, cwd, next_fd, fds,
  \* ---- ghost: the descriptors syscall_open has returned to each thread
  opens,
  \* ---- the processes: parent, child_list, finished_list, is_waiting,
  \*      waiting_now, wait_exit, wait_sema of each struct thread
  ps,
  \* ---- ghost: the values syscall_wait (child) has returned to each parent
  wrets,
  \* ---- the position of each thread inside filesys_create
  crt,
  \* ---- ghost: the entries for which filesys_create returned true to a thread
  won

cacheVars == <<sec, flag, data, reader_count, cache_lock, lru>>
threadVars == <<th, sema>>
flushVars == <<fl_pc, fl_i>>
ghostVars == <<latest, expect, wover, since, calls>>
\* the state of the system calls above the inode layer
openVars == <<olist, opn>>
pathVars == <<tree, cwd, next_fd, fds, opens>>
procVars == <<ps, wrets>>
createVars == <<crt, won>>
sysVars == <<openVars, pathVars, procVars, createVars>>
inodeVars == <<free_map, blk, ahead, open_inodes, dir, last, rel, owned, content, hole,
               sysVars>>
\* everything the file-system calls leave alone
cacheAll == <<cacheVars, device, threadVars, flushVars, shutdown, latest, expect,
              wover, since, sysVars>>
vars == <<cacheVars, device, threadVars, flushVars, panicked, shutdown, ghostVars,
          inodeVars>>

(***************************************************************************)
(* Helpers                                                                 *)
(***************************************************************************)
Min(S) == CHOOSE x \in S : \A y \in S : x <= y
\* the element of a one-element set
Only(S) == CHOOSE x \in S : TRUE

\* flag & bit  (two's complement, also for a flag that went negative)
HasBit(f, b) == (f \div b) % 2 = 1
\* flag |= bit
SetBit(f, b) == IF HasBit(f, b) THEN f ELSE f + b

Last(l) == l[Len(l)]
IndexOf(l, e) == CHOOSE k \in 1 .. Len(l) : l[k] = e

\* cacheUpdate: list_remove(e); list_push_front(&cache, e)
cacheUpdate(l, e) ==
  LET keep(x) == x /= e
  IN <<e>> \o SelectSeq(l, keep)

\* pos->prev in the list (the list head has no entry: N >= 2 keeps pos off it)
PrevOf(l, e) == IF IndexOf(l, e) > 1 THEN l[IndexOf(l, e) - 1] ELSE e

\* an entry is in use when a writer or a reader holds it (cache_force_one's test)
InUse(i) == HasBit(flag[i], B_WRITER) \/ reader_count[i] > 0

InitDevice == [s \in Sectors |-> s % (MaxValue + 1)]
\* the bytes a client writes to sector s: different from what the device holds
\* at the start and from what its neighbours hold
NewValue(s) == (InitDevice[s] + 1) % (MaxValue + 1)

Running == ~panicked /\ ~shutdown


\* locals of a thread that does not exist / is outside the cache
\* (hit is a ghost: cacheGetIdx has found the sector of the call in the cache)
OffTh == [pc |-> "off", op |-> "none", sec |-> 0, val |-> 0, buf |-> 0,
          i |-> 0, pos |-> 0, parent |-> 0, hit |-> FALSE]
IdleTh == [OffTh EXCEPT !.pc = "idle"]


(***************************************************************************)
(* The readers-writer protocol of an entry.  Each function runs under the  *)
(* entry's rw_lock mutex and waits on rw_cond, so it is one atomic step    *)
(* that is enabled when its wait condition is false.                       *)
(***************************************************************************)
\* cache_write_acquire: while((c->flag & B_WRITER) || c->reader_count > 0) wait
CanWriteAcquire(f, rc) == ~HasBit(f, B_WRITER) /\ rc <= 0
\* a reader that does not wait for the writer
CanReadAcquire_NoWait(f) == TRUE
\* cache_read_acquire: while(c->flag & B_WRITER) wait
CanReadAcquire(f) == ~HasBit(f, B_WRITER)
\* cache_write_acquire: c->flag |= B_WRITER
WriteAcquireFlag(f) == SetBit(f, B_WRITER)
\* cache_write: buffer->flag |= B_DIRTY
DirtyFlag(f) == SetBit(f, B_DIRTY)
\* cache_write_release: ASSERT(c->flag & B_WRITER); c->flag -= B_WRITER
WriteReleaseOk(f) == HasBit(f, B_WRITER)
WriteReleaseFlag(f) == f - B_WRITER
\* cache_read_acquire: c->reader_count++
ReadAcquireCount(rc) == rc + 1
\* cache_read_release: ASSERT(c->reader_count > 0); --c->reader_count
ReadReleaseOk(rc) == rc > 0
ReadReleaseCount(rc) == rc - 1

(***************************************************************************)
(* Ghost bookkeeping of the client calls.                                  *)
(***************************************************************************)
InCall(u) == th[u].pc \notin {"idle", "off"}
WritersOf(s) == {u \in Clients : InCall(u) /\ th[u].op = "write" /\ th[u].sec = s}
ReadersOf(s) == {u \in Clients : InCall(u) /\ th[u].op = "read" /\ th[u].sec = s}

\* a client enters cache_read(s, to) or cache_write(s, from)
Call(t, op, s, v, budget) ==
  /\ UNCHANGED inodeVars
  /\ Running
  /\ t \in Clients
  /\ th[t].pc = "idle"
  /\ calls < budget
  /\ calls' = calls + 1
  /\ th' = [th EXCEPT ![t] = [IdleTh EXCEPT !.pc = "getidx", !.op = op,
                                            !.sec = s, !.val = v]]
  /\ IF op = "read"
       THEN /\ expect' = [expect EXCEPT ![t] =
                            IF WritersOf(s) = {} THEN latest[s] ELSE Unknown]
            /\ UNCHANGED wover
       ELSE /\ expect' = [u \in Clients |->
                            IF u \in ReadersOf(s) THEN Unknown ELSE expect[u]]
            /\ wover' = [u \in Clients |->
                            IF u = t THEN WritersOf(s) /= {}
                            ELSE IF u \in WritersOf(s) THEN TRUE ELSE wover[u]]
  /\ UNCHANGED <<cacheVars, device, sema, flushVars, panicked, shutdown,
                 latest, since>>

(***************************************************************************)
(* cacheGetIdx(sec): the unlocked scan, then lock and re-validate.         *)
(***************************************************************************)
\* a helper that never signals
sema_up_Lost(t) == UNCHANGED sema
\* sema_up (aheadWrap.sema) by helper t: the semaphore sema1 of its spawner
sema_up(t) == sema' = [sema EXCEPT ![th[t].parent] = @ + 1]

\* what the caller does with a hit: a client goes on to the rw-lock, the
\* read-ahead helper signals its spawner and exits (cacheLoadThread, 249-253)
Found(t, l) ==
  IF t \in Helpers
    THEN /\ th' = [th EXCEPT ![t] = OffTh]
         /\ sema_up(t)
    ELSE /\ th' = [th EXCEPT ![t].pc = "acquire", ![t].hit = TRUE]
         /\ UNCHANGED sema

\* what the caller does with NULL: the helper gives up when the sector is past
\* the device, everyone else goes to cacheGetFree
NotFound(t) ==
  IF t \in Helpers /\ th[t].sec >= NumSectors
    THEN /\ th' = [th EXCEPT ![t] = OffTh]
         /\ sema_up(t)
    ELSE /\ th' = [th EXCEPT ![t].pc = "getfree", ![t].i = 0]
         /\ UNCHANGED sema

\* the for loop of cacheGetIdx up to the first entry whose sec matches
GetIdxScan(t) ==
  /\ UNCHANGED inodeVars
  /\ Running
  /\ th[t].pc = "getidx"
  /\ LET hits == {i \in Entries : sec[i] = th[t].sec}
     IN IF hits /= {}
          THEN /\ th' = [th EXCEPT ![t].pc = "getidx_lock", ![t].buf = Min(hits)]
               /\ UNCHANGED sema
          ELSE NotFound(t)
  /\ UNCHANGED <<cacheVars, device, flushVars, panicked, shutdown, ghostVars>>

\* a cacheGetIdx that trusts its unlocked scan
SameSector_Unchecked(i, s) == TRUE
\* the comparison under the slot lock: temp->sec != sec
SameSector(i, s) == sec[i] = s

\* lock_acquire(&temp->cache_lock); re-check temp->sec; cacheUpdate; release
GetIdxLock(t) ==
  /\ UNCHANGED inodeVars
  /\ Running
  /\ th[t].pc = "getidx_lock"
  /\ cache_lock[th[t].buf] = 0
  /\ IF ~SameSector(th[t].buf, th[t].sec)
       THEN NotFound(t) /\ UNCHANGED lru
       ELSE Found(t, lru) /\ lru' = cacheUpdate(lru, th[t].buf)
  /\ UNCHANGED <<sec, flag, data, reader_count, cache_lock, device, flushVars,
                 panicked, shutdown, ghostVars>>

(***************************************************************************)
(* cacheGetFree(): scan for flag == B_VALID, try the slot lock, set BUSY.  *)
(***************************************************************************)
\* the flag test of the scan, from index th[t].i on; NULL sends the caller
\* into cache_eviction (pos = list_rbegin(&cache))
GetFreeScan(t) ==
  /\ UNCHANGED inodeVars
  /\ Running
  /\ th[t].pc = "getfree"
  /\ LET cand == {i \in Entries : i >= th[t].i /\ flag[i] = B_VALID}
     IN IF cand /= {}
          THEN th' = [th EXCEPT ![t].pc = "getfree_lock", ![t].buf = Min(cand)]
          ELSE th' = [th EXCEPT ![t].pc = "evict", ![t].pos = Last(lru)]
  /\ UNCHANGED <<cacheVars, device, sema, flushVars, panicked, shutdown, ghostVars>>

\* lock_try_acquire; on success flag |= B_BUSY, cacheUpdate, lock_release;
\* on failure the scan continues with the next index
GetFreeLock(t) ==
  /\ UNCHANGED inodeVars
  /\ Running
  /\ th[t].pc = "getfree_lock"
  /\ LET b == th[t].buf
     IN IF cache_lock[b] /= 0
          THEN /\ th' = [th EXCEPT ![t].pc = "getfree", ![t].i = b + 1]
               /\ UNCHANGED <<flag, lru>>
          ELSE /\ flag' = [flag EXCEPT ![b] = SetBit(@, B_BUSY)]
               /\ lru' = cacheUpdate(lru, b)
               /\ th' = [th EXCEPT ![t].pc = "setsec", ![t].i = 0]
  /\ UNCHANGED <<sec, data, reader_count, cache_lock, device, sema, flushVars,
                 panicked, shutdown, ghostVars>>

(***************************************************************************)
(* cache_eviction() and cache_force_one(temp, false)                       *)
(***************************************************************************)
\* the position cache_eviction looks at after it released an entry
EvictNextPos(l, pos) == IF pos = Last(l) THEN PrevOf(l, pos) ELSE Last(l)

\* lock_try_acquire(&temp->cache_lock); the B_VALID test; the in-use test of
\* cache_force_one.  A failed try-lock is "continue" with nothing changed.
EvictTry(t) ==
  /\ UNCHANGED inodeVars
  /\ Running
  /\ th[t].pc = "evict"
  /\ LET temp == th[t].pos
     IN /\ cache_lock[temp] = 0
        /\ IF flag[temp] = B_VALID \/ InUse(temp)
             THEN \* return: the caller's while loop calls cacheGetFree again
                  /\ th' = [th EXCEPT ![t].pc = "getfree", ![t].i = 0]
                  /\ UNCHANGED cache_lock
             ELSE /\ th' = [th EXCEPT ![t].pc = "evict_force"]
                  /\ cache_lock' = [cache_lock EXCEPT ![temp] = t]
  /\ UNCHANGED <<sec, flag, data, reader_count, lru, device, sema, flushVars,
                 panicked, shutdown, ghostVars>>

\* the rest of cache_force_one: write back if DIRTY, oneblock_release; then
\* cache_eviction moves pos, releases the slot lock and continues
EvictForce(t) ==
  /\ UNCHANGED inodeVars
  /\ Running
  /\ th[t].pc = "evict_force"
  /\ LET temp == th[t].pos
         dirty == HasBit(flag[temp], B_DIRTY)
     IN IF dirty /\ sec[temp] \notin Sectors
          THEN \* block_write past the device: PANIC in the block layer
               /\ panicked' = TRUE
               /\ UNCHANGED <<sec, flag, reader_count, cache_lock, device, th>>
          ELSE /\ device' = IF dirty THEN [device EXCEPT ![sec[temp]] = data[temp]]
                                     ELSE device
               /\ sec' = [sec EXCEPT ![temp] = NONE]
               /\ flag' = [flag EXCEPT ![temp] = B_VALID]
               /\ reader_count' = [reader_count EXCEPT ![temp] = 0]
               /\ cache_lock' = [cache_lock EXCEPT ![temp] = 0]
               /\ th' = [th EXCEPT ![t].pc = "evict",
                                   ![t].pos = EvictNextPos(lru, temp)]
               /\ UNCHANGED panicked
  /\ UNCHANGED <<data, lru, sema, flushVars, shutdown, ghostVars>>

(***************************************************************************)
(* The load of a claimed entry: cacheLoadBlock 295-300, cacheLoadThread    *)
(* 258-266.                                                                *)
(***************************************************************************)
\* ndata->sec = sec;  the helper also does sema_up(aheadWrap.sema)
SetSec(t) ==
  /\ UNCHANGED inodeVars
  /\ Running
  /\ th[t].pc = "setsec"
  /\ sec' = [sec EXCEPT ![th[t].buf] = th[t].sec]
  /\ th' = [th EXCEPT ![t].pc = "load_wacq"]
  /\ IF t \in Helpers THEN sema_up(t) ELSE UNCHANGED sema
  /\ UNCHANGED <<flag, data, reader_count, cache_lock, lru, device, flushVars,
                 panicked, shutdown, ghostVars>>

\* cache_write_acquire(ndata)
LoadAcquire(t) ==
  /\ UNCHANGED inodeVars
  /\ Running
  /\ th[t].pc = "load_wacq"
  /\ CanWriteAcquire(flag[th[t].buf], reader_count[th[t].buf])
  /\ flag' = [flag EXCEPT ![th[t].buf] = WriteAcquireFlag(@)]
  /\ th' = [th EXCEPT ![t].pc = "load_read"]
  /\ UNCHANGED <<sec, data, reader_count, cache_lock, lru, device, sema,
                 flushVars, panicked, shutdown, ghostVars>>

\* block_read(fs_device, sec, ndata->data); cache_write_release(ndata);
\* cacheUpdate(&ndata->elem).  The helper then exits, the client goes on to
\* spawn the read-ahead.
LoadRead(t) ==
  /\ UNCHANGED inodeVars
  /\ Running
  /\ th[t].pc = "load_read"
  /\ LET b == th[t].buf
     IN /\ data' = [data EXCEPT ![b] = device[th[t].sec]]
        /\ IF WriteReleaseOk(flag[b])
             THEN /\ flag' = [flag EXCEPT ![b] = WriteReleaseFlag(@)]
                  /\ lru' = cacheUpdate(lru, b)
                  /\ th' = IF t \in Helpers THEN [th EXCEPT ![t] = OffTh]
                                            ELSE [th EXCEPT ![t].pc = "spawn"]
                  /\ UNCHANGED panicked
             ELSE /\ panicked' = TRUE
                  /\ UNCHANGED <<flag, lru, th>>
  /\ UNCHANGED <<sec, reader_count, cache_lock, device, sema, flushVars,
                 shutdown, ghostVars>>

\* malloc of the ahead_set; thread_create("ahead_reader") with sec + 1
Spawn(t) ==
  /\ UNCHANGED inodeVars
  /\ Running
  /\ th[t].pc = "spawn"
  /\ \/ \* malloc returned NULL: no read-ahead
        /\ th' = [th EXCEPT ![t].pc = "acquire"]
        /\ UNCHANGED sema
     \/ \E h \in Helpers :
          /\ th[h].pc = "off"
          /\ th' = [th EXCEPT ![t].pc = "sema_down",
                              ![h] = [OffTh EXCEPT !.pc = "getidx", !.op = "ahead",
                                                   !.sec = th[t].sec + 1,
                                                   !.parent = t]]
          /\ sema' = [sema EXCEPT ![t] = 0]
  /\ UNCHANGED <<cacheVars, device, flushVars, panicked, shutdown, ghostVars>>

\* sema_down(&sema1)
SemaDown(t) ==
  /\ UNCHANGED inodeVars
  /\ Running
  /\ th[t].pc = "sema_down"
  /\ sema[t] > 0
  /\ sema' = [sema EXCEPT ![t] = @ - 1]
  /\ th' = [th EXCEPT ![t].pc = "acquire"]
  /\ UNCHANGED <<cacheVars, device, flushVars, panicked, shutdown, ghostVars>>

(***************************************************************************)
(* cache_read / cache_write on the entry they were given                   *)
(***************************************************************************)
\* cache_read_acquire(buffer), memcpy(to, buffer->data), cacheUpdate  resp.
\* cache_write_acquire(buffer), memcpy(buffer->data, from), flag |= B_DIRTY,
\* cacheUpdate.  The copy is done with the rw access held; nobody who honours
\* the protocol can run in between, so acquire and copy are one step.
Acquire(t) ==
  /\ UNCHANGED inodeVars
  /\ Running
  /\ th[t].pc = "acquire"
  /\ LET b == th[t].buf
     IN /\ lru' = cacheUpdate(lru, b)
        /\ IF th[t].op = "read"
             THEN /\ CanReadAcquire(flag[b])
                  /\ reader_count' = [reader_count EXCEPT ![b] = ReadAcquireCount(@)]
                  /\ th' = [th EXCEPT ![t].pc = "release", ![t].val = data[b]]
                  /\ UNCHANGED <<flag, data>>
             ELSE /\ CanWriteAcquire(flag[b], reader_count[b])
                  /\ flag' = [flag EXCEPT ![b] = DirtyFlag(WriteAcquireFlag(@))]
                  /\ data' = [data EXCEPT ![b] = th[t].val]
                  /\ th' = [th EXCEPT ![t].pc = "release"]
                  /\ UNCHANGED reader_count
  /\ UNCHANGED <<sec, cache_lock, device, sema, flushVars, panicked,
                 shutdown, ghostVars>>

\* sectors seen by the LRU ghost after an access to s
SinceAfter(s) ==
  [x \in DOMAIN since |-> IF x = s THEN {}
                     ELSE IF x \in since[x] THEN since[x]
                     ELSE since[x] \cup {s}]

\* cache_read_release(buffer) resp. cache_write_release(buffer); return
Release(t) ==
  /\ UNCHANGED inodeVars
  /\ Running
  /\ th[t].pc = "release"
  /\ LET b == th[t].buf
     IN IF th[t].op = "read"
          THEN IF ReadReleaseOk(reader_count[b])
                 THEN /\ reader_count' = [reader_count EXCEPT ![b] = ReadReleaseCount(@)]
                      /\ th' = [th EXCEPT ![t] = IdleTh]
                      /\ since' = SinceAfter(th[t].sec)
                      /\ UNCHANGED <<flag, panicked, latest>>
                 ELSE /\ panicked' = TRUE
                      /\ UNCHANGED <<flag, reader_count, th, latest, since>>
          ELSE IF WriteReleaseOk(flag[b])
                 THEN /\ flag' = [flag EXCEPT ![b] = WriteReleaseFlag(@)]
                      /\ th' = [th EXCEPT ![t] = IdleTh]
                      /\ latest' = [latest EXCEPT ![th[t].sec] =
                                      IF wover[t] THEN Unknown ELSE th[t].val]
                      /\ since' = SinceAfter(th[t].sec)
                      /\ UNCHANGED <<reader_count, panicked>>
                 ELSE /\ panicked' = TRUE
                      /\ UNCHANGED <<flag, reader_count, th, latest, since>>
  /\ UNCHANGED <<sec, data, cache_lock, lru, device, sema, flushVars,
                 shutdown, expect, wover, calls>>

(***************************************************************************)
(* cacheWriteBackThread                                                    *)
(***************************************************************************)
\* timer_sleep(TIMER_FREQ * 10) returns
FlusherWake ==
  /\ UNCHANGED inodeVars
  /\ Running
  /\ fl_pc = "sleep"
  /\ fl_pc' = "acq"
  /\ fl_i' = 0
  /\ UNCHANGED <<cacheVars, device, threadVars, panicked, shutdown, ghostVars>>

\* cache_read_acquire(_cache_buffer + i)
FlusherAcquire ==
  /\ UNCHANGED inodeVars
  /\ Running
  /\ fl_pc = "acq"
  /\ CanReadAcquire(flag[fl_i])
  /\ reader_count' = [reader_count EXCEPT ![fl_i] = ReadAcquireCount(@)]
  /\ fl_pc' = "write"
  /\ UNCHANGED <<sec, flag, data, cache_lock, lru, device, threadVars, fl_i,
                 panicked, shutdown, ghostVars>>

\* if DIRTY: block_write, flag -= B_DIRTY; cache_read_release; i++
FlusherWrite ==
  /\ UNCHANGED inodeVars
  /\ Running
  /\ fl_pc = "write"
  /\ LET dirty == HasBit(flag[fl_i], B_DIRTY)
     IN IF (dirty /\ sec[fl_i] \notin Sectors) \/ ~ReadReleaseOk(reader_count[fl_i])
          THEN /\ panicked' = TRUE
               /\ UNCHANGED <<flag, reader_count, device, fl_pc, fl_i>>
          ELSE /\ device' = IF dirty THEN [device EXCEPT ![sec[fl_i]] = data[fl_i]]
                                     ELSE device
               /\ flag' = IF dirty THEN [flag EXCEPT ![fl_i] = @ - B_DIRTY] ELSE flag
               /\ reader_count' = [reader_count EXCEPT ![fl_i] = ReadReleaseCount(@)]
               /\ fl_i' = IF fl_i + 1 < MaxCacheSize THEN fl_i + 1 ELSE 0
               /\ fl_pc' = IF fl_i + 1 < MaxCacheSize THEN "acq" ELSE "sleep"
               /\ UNCHANGED panicked
  /\ UNCHANGED <<sec, data, cache_lock, lru, threadVars, shutdown, ghostVars>>

(***************************************************************************)
(* The inode layer (part_003) and the file-system calls above it           *)
(* (part_001).  Geometry is scaled down: a sector holds BLOCK_SECTOR_SIZE  *)
(* bytes, an index block holds PtrsPerBlock sector numbers (one per byte   *)
(* of the scaled sector; 128 in the source), an inode has NUM_OF_DIRECTS   *)
(* direct and NUM_OF_INDIRECTS indirect slots (10 and 10 in the source).   *)
(* The literals 10, 1290 and 128 of allocate_inode_data are written        *)
(* NUM_OF_DIRECTS, IndirectEnd and PtrsPerBlock.                           *)
(***************************************************************************)
FsSectors == 0 .. (DeviceSize - 1)
PtrsPerBlock == BLOCK_SECTOR_SIZE
MAX_DIRECTS == NUM_OF_DIRECTS * BLOCK_SECTOR_SIZE
MAX_INDIRECTS == NUM_OF_INDIRECTS * PtrsPerBlock * BLOCK_SECTOR_SIZE
IndirectEnd == NUM_OF_DIRECTS + NUM_OF_INDIRECTS * PtrsPerBlock
\* the largest file the index can address, in sectors and in bytes
MaxFileSectors == IndirectEnd + PtrsPerBlock * PtrsPerBlock
MaxFileBytes == MaxFileSectors * BLOCK_SECTOR_SIZE

\* the byte a client writes, and what an unwritten device sector holds in
\* every byte: left over from an earlier use of the disk, read as a sector
\* number it names the last sector of the device
DataByte == 1
\* the longest chain of ".." components a path is made of
MaxUp == 6
JunkWord == DeviceSize - 1

ByteIdx == 0 .. (BLOCK_SECTOR_SIZE - 1)
At(f, k) == IF k \in DOMAIN f THEN f[k] ELSE JunkWord

\* init_blocks (blocks, num)
init_blocks(num) == [k \in 0 .. (num - 1) |-> NONE]

\* struct inode_disk, without magic, unused and parent_dir (regular files)
NewDisk(len) == [length |-> len,
                 d_blocks |-> init_blocks(NUM_OF_DIRECTS),
                 ind_blocks |-> init_blocks(NUM_OF_INDIRECTS),
                 d_ind_blocks |-> NONE]

\* what a sector holds: raw bytes / sector numbers, or a struct inode_disk
RawBlock(w) == [t |-> "raw", w |-> w, id |-> NewDisk(0)]
InodeBlock(id) == [t |-> "inode", w |-> [k \in ByteIdx |-> 0], id |-> id]
NotCached == [t |-> "none", w |-> [k \in ByteIdx |-> 0], id |-> NewDisk(0)]
ZeroBlock == RawBlock([k \in ByteIdx |-> 0])
JunkBlock == RawBlock([k \in ByteIdx |-> JunkWord])

\* a sector read as bytes or as struct inode_disk_indirect
Words(b) == IF b.t = "raw" THEN b.w ELSE [k \in ByteIdx |-> JunkWord]
\* a sector read as struct inode_disk
DiskInode(b) ==
  IF b.t = "inode" THEN b.id
  ELSE [length |-> Words(b)[0],
        d_blocks |-> [k \in 0 .. (NUM_OF_DIRECTS - 1) |-> Words(b)[0]],
        ind_blocks |-> [k \in 0 .. (NUM_OF_INDIRECTS - 1) |-> Words(b)[0]],
        d_ind_blocks |-> Words(b)[0]]

\* bytes_to_sectors: DIV_ROUND_UP (size, BLOCK_SECTOR_SIZE)
bytes_to_sectors(size) == (size + BLOCK_SECTOR_SIZE - 1) \div BLOCK_SECTOR_SIZE

(***************************************************************************)
(* The buffer cache as the inode layer sees it.  c.blk[s] is the data of   *)
(* the entry whose sec is s (NotCached: no such entry), c.ahead is the set *)
(* of sectors whose entry a read-ahead helper has claimed (ahead->sec set, *)
(* sema_up done) without having done its block_read yet, c.panic is a      *)
(* kernel PANIC.  In these runs the pool is larger than the set of sectors *)
(* touched and the run is shorter than the write-back period, so no entry  *)
(* is evicted or written back and the device keeps what it held: junk.     *)
(***************************************************************************)
\* cacheLoadBlock (sec): block_read into a free entry, then cacheLoadThread
\* for sec + 1 up to its sema_up.  A fresh entry's data is zero (static
\* storage); block_read past the device is a PANIC.
cacheLoadBlock(c, s) ==
  IF s \notin FsSectors
    THEN [c EXCEPT !.panic = TRUE]
    ELSE IF (s + 1) \in FsSectors /\ c.blk[s + 1] = NotCached
           THEN [c EXCEPT !.blk[s] = JunkBlock,
                          !.blk[s + 1] = ZeroBlock,
                          !.ahead = @ \cup {s + 1}]
           ELSE [c EXCEPT !.blk[s] = JunkBlock]

\* cacheGetIdx (sec), and cacheLoadBlock (sec) when it finds nothing
CacheEntry(c, s) ==
  IF s \in FsSectors /\ c.blk[s] /= NotCached THEN c ELSE cacheLoadBlock(c, s)

\* COND_block_read: the cache after cache_read (sec, to), and the bytes in `to`
COND_block_read(c, s) == CacheEntry(c, s)
ReadBlock(c, s) == IF s \in FsSectors THEN CacheEntry(c, s).blk[s] ELSE JunkBlock

\* COND_block_write: cache_write (sec, from)
COND_block_write(c, s, b) ==
  IF CacheEntry(c, s).panic THEN CacheEntry(c, s)
  ELSE [CacheEntry(c, s) EXCEPT !.blk[s] = b]

\* ASSERT (cond)
Assert_(c, cond) == IF cond THEN c ELSE [c EXCEPT !.panic = TRUE]

(***************************************************************************)
(* The free-map: the set of allocated sectors.                             *)
(***************************************************************************)
\* free_map_allocate (1, &sector): the lowest free sector, NONE when full
free_map_allocate(fm) ==
  IF FsSectors \ fm = {} THEN NONE ELSE Min(FsSectors \ fm)

\* free_map_release (sector, 1) for each sector of a list, in order
RECURSIVE free_map_release(_, _)
free_map_release(fm, list) ==
  IF list = <<>> THEN fm
  ELSE free_map_release(fm \ {Head(list)}, Tail(list))

(***************************************************************************)
(* The root directory: a map from names to inode sectors.                  *)
(***************************************************************************)
\* dir_lookup (dir, name, &inode): the sector of the entry, NONE when absent
dir_lookup(d, name) == IF name \in DOMAIN d THEN d[name] ELSE NONE

\* dir_add (dir, name, sector): fails when the name is already in use
dir_add(d, name, sector) ==
  IF name \in DOMAIN d THEN d
  ELSE [x \in (DOMAIN d) \cup {name} |-> IF x = name THEN sector ELSE d[x]]

\* the directory without the entry of name
dir_erase(d, name) == [x \in (DOMAIN d) \ {name} |-> d[x]]

(***************************************************************************)
(* byte_to_sector (inode, pos).  The result is the sector (field sec), the *)
(* cache after the index blocks were read (field c).  A failed ASSERT sets *)
(* c.panic.                                                                *)
(***************************************************************************)
Bts(sec_, c) == [sec |-> sec_, c |-> c]

\* a lookup that takes the byte within the sector for the slot
BtsIndirect_ByteAsSlot(c, ind_idx, remaining) ==
  IF ind_idx = NONE THEN Bts(NONE, Assert_(c, FALSE))
  ELSE LET c1 == COND_block_read(c, ind_idx)
           d_idx == At(Words(ReadBlock(c, ind_idx)), remaining % BLOCK_SECTOR_SIZE)
       IN Bts(d_idx, Assert_(c1, d_idx /= NONE))

\* the lookup through one indirect block: ASSERT (ind_idx != -1), read the
\* block, ASSERT (d_idx != -1)
BtsIndirect(c, ind_idx, remaining) ==
  IF ind_idx = NONE THEN Bts(NONE, Assert_(c, FALSE))
  ELSE LET c1 == COND_block_read(c, ind_idx)
           d_idx == At(Words(ReadBlock(c, ind_idx)), remaining \div BLOCK_SECTOR_SIZE)
       IN Bts(d_idx, Assert_(c1, d_idx /= NONE))

byte_to_sector(c, id, pos) ==
  IF id.length = 0 THEN Bts(NONE, c)
  ELSE IF pos < MAX_DIRECTS
    THEN LET d_idx == id.d_blocks[pos \div BLOCK_SECTOR_SIZE]
         IN Bts(d_idx, Assert_(c, d_idx /= NONE))
  ELSE IF pos < MAX_DIRECTS + MAX_INDIRECTS
    THEN BtsIndirect(c,
           id.ind_blocks[(pos - MAX_DIRECTS) \div (BLOCK_SECTOR_SIZE * PtrsPerBlock)],
           (pos - MAX_DIRECTS) % (BLOCK_SECTOR_SIZE * PtrsPerBlock))
  ELSE IF pos < id.length
    THEN IF id.d_ind_blocks = NONE THEN Bts(NONE, Assert_(c, FALSE))
         ELSE LET c1 == COND_block_read(c, id.d_ind_blocks)
                  iddi == Words(ReadBlock(c, id.d_ind_blocks))
                  rest == pos - MAX_DIRECTS - MAX_INDIRECTS
              IN IF c1.panic THEN Bts(NONE, c1)
                 ELSE BtsIndirect(c1,
                        At(iddi, rest \div (BLOCK_SECTOR_SIZE * PtrsPerBlock)),
                        rest % (BLOCK_SECTOR_SIZE * PtrsPerBlock))
  ELSE Bts(NONE, c)

(***************************************************************************)
(* allocate_inode_data (id, sectors, start).  The state of the loop:       *)
(*   c, fm       cache and free-map                                        *)
(*   id          the struct inode_disk being grown                         *)
(*   idi, iddi   the locals holding the indirect / double-indirect block   *)
(*   i           the loop variable                                         *)
(*   ok          FALSE once the function has returned false                *)
(*   got         (ghost) the sectors allocated by this call                *)
(***************************************************************************)
\* an automatic variable that was never assigned; no path of the function
\* reads it before init_blocks or COND_block_read has filled it
Unassigned == [k \in ByteIdx |-> JunkWord]

\* the two blocks of code before the loop (227-254)
AllocStart(c, fm, id, start) ==
  LET inInd == start >= NUM_OF_DIRECTS /\ start < IndirectEnd
      sec1 == IF inInd THEN id.ind_blocks[(start - NUM_OF_DIRECTS) \div PtrsPerBlock]
                       ELSE NONE
      c1 == IF sec1 /= NONE THEN COND_block_read(c, sec1) ELSE c
      idi1 == IF sec1 /= NONE THEN Words(ReadBlock(c, sec1)) ELSE Unassigned
      hasD == id.d_ind_blocks /= NONE
      c2 == IF hasD THEN COND_block_read(c1, id.d_ind_blocks) ELSE c1
      iddi == IF hasD THEN Words(ReadBlock(c1, id.d_ind_blocks))
                      ELSE init_blocks(PtrsPerBlock)
      sec2 == IF hasD /\ start >= IndirectEnd
                THEN At(iddi, (start - IndirectEnd) \div PtrsPerBlock)
                ELSE NONE
      c3 == IF sec2 /= NONE THEN COND_block_read(c2, sec2) ELSE c2
      idi2 == IF sec2 /= NONE THEN Words(ReadBlock(c2, sec2)) ELSE idi1
  IN [c |-> c3, fm |-> fm, id |-> id, idi |-> idi2, iddi |-> iddi,
      i |-> start, ok |-> TRUE, got |-> {}]

\* return false
AllocFail(st) == [st EXCEPT !.ok = FALSE]

\* the tail shared by the indirect and the double-indirect branch:
\* ASSERT (idi.d_blocks[sec] == -1); allocate the data sector; zero it
AllocData(st, j) ==
  LET s == free_map_allocate(st.fm)
  IN IF At(st.idi, j) /= NONE THEN [st EXCEPT !.c = Assert_(@, FALSE)]
     ELSE IF s = NONE THEN AllocFail(st)
     ELSE [st EXCEPT !.fm = @ \cup {s}, !.got = @ \cup {s},
                     !.idi = [@ EXCEPT ![j] = s],
                     !.c = COND_block_write(@, s, ZeroBlock)]

\* i < 10
AllocDirect(st) ==
  LET s == free_map_allocate(st.fm)
  IN IF s = NONE THEN AllocFail(st)
     ELSE [st EXCEPT !.fm = @ \cup {s}, !.got = @ \cup {s},
                     !.id.d_blocks[st.i] = s,
                     !.c = COND_block_write(@, s, ZeroBlock),
                     !.i = @ + 1]

\* i < 1290
AllocIndirect(st, sectors) ==
  LET i_a == st.i - NUM_OF_DIRECTS
      j == i_a % PtrsPerBlock
      slot == i_a \div PtrsPerBlock
      s1 == free_map_allocate(st.fm)
      st1 == IF j /= 0 THEN st
             ELSE IF s1 = NONE THEN AllocFail(st)
             ELSE [st EXCEPT !.fm = @ \cup {s1}, !.got = @ \cup {s1},
                             !.id.ind_blocks[slot] = s1,
                             !.idi = init_blocks(PtrsPerBlock)]
      st2 == IF st1.ok THEN AllocData(st1, j) ELSE st1
  IN IF ~st2.ok \/ st2.c.panic THEN st2
     ELSE IF j = PtrsPerBlock - 1 \/ st.i = sectors - 1
       THEN [st2 EXCEPT !.c = COND_block_write(@, st2.id.ind_blocks[slot],
                                               RawBlock(st2.idi)),
                        !.i = @ + 1]
       ELSE [st2 EXCEPT !.i = @ + 1]

\* the else branch: the double-indirect range
AllocDouble(st, sectors) ==
  LET i_a == st.i - IndirectEnd
      j == i_a % PtrsPerBlock
      slot == i_a \div PtrsPerBlock
      s0 == free_map_allocate(st.fm)
      st0 == IF st.i /= IndirectEnd THEN st
             ELSE IF s0 = NONE THEN AllocFail(st)
             ELSE [st EXCEPT !.fm = @ \cup {s0}, !.got = @ \cup {s0},
                             !.id.d_ind_blocks = s0]
      s1 == free_map_allocate(st0.fm)
      st1 == IF ~st0.ok \/ j /= 0 THEN st0
             ELSE IF s1 = NONE THEN AllocFail(st0)
             ELSE [st0 EXCEPT !.fm = @ \cup {s1}, !.got = @ \cup {s1},
                              !.iddi = [@ EXCEPT ![slot] = s1],
                              !.idi = init_blocks(PtrsPerBlock)]
      st2 == IF st1.ok THEN AllocData(st1, j) ELSE st1
      final == st.i = sectors - 1
      st3 == IF ~st2.ok \/ st2.c.panic THEN st2
             ELSE IF j = PtrsPerBlock - 1 \/ final
               THEN [st2 EXCEPT !.c = COND_block_write(@, At(st2.iddi, slot),
                                                       RawBlock(st2.idi))]
               ELSE st2
  IN IF ~st3.ok \/ st3.c.panic THEN st3
     ELSE IF final
       THEN [st3 EXCEPT !.c = COND_block_write(@, st3.id.d_ind_blocks,
                                               RawBlock(st3.iddi)),
                        !.i = @ + 1]
       ELSE [st3 EXCEPT !.i = @ + 1]

\* for (i = start; i < sectors; i++)
RECURSIVE AllocLoop(_, _)
AllocLoop(st, sectors) ==
  IF st.i >= sectors \/ ~st.ok \/ st.c.panic THEN st
  ELSE Only({AllocLoop(x, sectors) : x \in
         {IF st.i < NUM_OF_DIRECTS THEN AllocDirect(st)
          ELSE IF st.i < IndirectEnd THEN AllocIndirect(st, sectors)
          ELSE AllocDouble(st, sectors)}})

allocate_inode_data(c, fm, id, sectors, start) ==
  Only({AllocLoop(x, sectors) : x \in {AllocStart(c, fm, id, start)}})

(***************************************************************************)
(* inode_create (sector, length, -1)                                       *)
(***************************************************************************)
\* the result: field ok is the return value
inode_create(c, fm, sector, length) ==
  Only({IF st.c.panic THEN st
        ELSE [st EXCEPT !.c = COND_block_write(@, sector, InodeBlock(st.id))] :
        st \in {allocate_inode_data(c, fm, NewDisk(length),
                                    bytes_to_sectors(length), 0)}})

(***************************************************************************)
(* inode_read_at (inode, buffer, size, offset).  Loop state: the cache,    *)
(* size, offset, and the bytes copied to the caller's buffer so far.       *)
(***************************************************************************)
MinOf(a, b) == IF a < b THEN a ELSE b

RECURSIVE ReadLoop(_, _, _)
ReadLoop(st, id, isFreeMap) ==
  IF st.size <= 0 \/ st.c.panic THEN st
  ELSE IF st.offset > id.length /\ ~isFreeMap THEN st
  ELSE LET b == byte_to_sector(st.c, id, st.offset)
           sector_ofs == st.offset % BLOCK_SECTOR_SIZE
           inode_left == id.length - st.offset
           sector_left == BLOCK_SECTOR_SIZE - sector_ofs
           chunk_size == MinOf(st.size, MinOf(inode_left, sector_left))
           bytes == Words(ReadBlock(b.c, b.sec))
       IN IF b.c.panic THEN [st EXCEPT !.c = b.c]
          ELSE IF chunk_size <= 0 THEN [st EXCEPT !.c = b.c]
          ELSE Only({ReadLoop(x, id, isFreeMap) : x \in
                 {[c |-> COND_block_read(b.c, b.sec),
                   size |-> st.size - chunk_size,
                   offset |-> st.offset + chunk_size,
                   buf |-> st.buf \o [k \in 1 .. chunk_size |->
                                        bytes[sector_ofs + k - 1]]]}})

inode_read_at(c, id, isFreeMap, size, offset) ==
  ReadLoop([c |-> c, size |-> size, offset |-> offset, buf |-> <<>>], id, isFreeMap)

(***************************************************************************)
(* inode_write_at (inode, buffer, size, offset), every byte of the buffer  *)
(* being DataByte.                                                         *)
(***************************************************************************)
\* an inode_write_at that never refuses
WriteDenied_Never(ino) == FALSE
\* if (inode->deny_write_cnt || ...) return 0
WriteDenied(ino) == ino.deny_write_cnt /= 0

\* a growth that adds size to the length and forgets the gap before offset
GrownLength_NoGap(length, size, offset) == length + size
\* inode->data.length += offset - inode->data.length + size
GrownLength(length, size, offset) == length + (offset - length) + size

\* the growth block (598-605): field ok = FALSE is the ASSERT (0) of line 602
WriteGrow(c, fm, ino, sector, size, offset) ==
  IF offset + size > ino.data.length
    THEN Only({IF st.c.panic THEN st
               ELSE IF ~st.ok THEN [st EXCEPT !.c = Assert_(@, FALSE)]
               ELSE [st EXCEPT
                       !.id.length = GrownLength(@, size, offset),
                       !.c = COND_block_write(@, sector,
                               InodeBlock([st.id EXCEPT
                                             !.length = GrownLength(@, size, offset)]))] :
               st \in {allocate_inode_data(c, fm, ino.data,
                                           bytes_to_sectors(offset + size),
                                           bytes_to_sectors(ino.data.length))}})
    ELSE [c |-> c, fm |-> fm, id |-> ino.data, idi |-> Unassigned,
          iddi |-> Unassigned, i |-> 0, ok |-> TRUE, got |-> {}]

RECURSIVE WriteLoop(_, _)
WriteLoop(st, id) ==
  IF st.size <= 0 \/ st.c.panic THEN st
  ELSE LET b == byte_to_sector(st.c, id, st.offset)
           c0 == Assert_(b.c, b.sec /= NONE)
           sector_ofs == st.offset % BLOCK_SECTOR_SIZE
           inode_left == id.length - st.offset
           sector_left == BLOCK_SECTOR_SIZE - sector_ofs
           chunk_size == MinOf(st.size, MinOf(inode_left, sector_left))
           whole == sector_ofs = 0 /\ chunk_size = BLOCK_SECTOR_SIZE
           keep == sector_ofs > 0 \/ chunk_size < sector_left
           c1 == IF ~whole /\ keep THEN COND_block_read(c0, b.sec) ELSE c0
           bounce == IF ~whole /\ keep THEN Words(ReadBlock(c0, b.sec))
                                       ELSE [k \in ByteIdx |-> 0]
           out == [k \in ByteIdx |->
                     IF k >= sector_ofs /\ k < sector_ofs + chunk_size
                       THEN DataByte ELSE bounce[k]]
       IN IF c0.panic THEN [st EXCEPT !.c = c0]
          ELSE IF chunk_size <= 0 THEN [st EXCEPT !.c = Assert_(c0, FALSE)]
          ELSE Only({WriteLoop(x, id) : x \in
                 {[c |-> COND_block_write(c1, b.sec, RawBlock(out)),
                   size |-> st.size - chunk_size,
                   offset |-> st.offset + chunk_size,
                   written |-> st.written + chunk_size]}})

(***************************************************************************)
(* inode_close: the sectors released when the last opener closes a removed *)
(* inode, in the order of the calls to free_map_release, and the cache     *)
(* after the index blocks were read.                                       *)
(***************************************************************************)
\* the slots of an index array up to its first -1
RECURSIVE UsedSlots(_, _)
UsedSlots(ptrs, k) ==
  IF k \notin DOMAIN ptrs \/ ptrs[k] = NONE THEN <<>>
  ELSE <<ptrs[k]>> \o UsedSlots(ptrs, k + 1)

\* the loop over indirect blocks (437-462, 468-493): for each slot that is not
\* -1, read the block, release its data sectors up to the first -1, release
\* the block; stop after a block that had a -1, or at a slot that is -1
RECURSIVE ReleaseIndirects(_, _, _)
ReleaseIndirects(r, ptrs, k) ==
  IF r.c.panic \/ k \notin DOMAIN ptrs \/ ptrs[k] = NONE THEN r
  ELSE LET c1 == COND_block_read(r.c, ptrs[k])
           idi == Words(ReadBlock(r.c, ptrs[k]))
           used == UsedSlots(idi, 0)
           r1 == [c |-> c1, rel |-> r.rel \o used \o <<ptrs[k]>>]
       IN IF Len(used) < PtrsPerBlock THEN r1
          ELSE Only({ReleaseIndirects(x, ptrs, k + 1) : x \in {r1}})

\* a destruction that releases the double-indirect sector before its children
ReleaseDouble_First(r, d_ind) ==
  IF d_ind = NONE \/ r.c.panic THEN r
  ELSE LET c1 == COND_block_read(r.c, d_ind)
           iddi == Words(ReadBlock(r.c, d_ind))
       IN ReleaseIndirects([c |-> c1, rel |-> r.rel \o <<d_ind>>], iddi, 0)

ReleaseDouble(r, d_ind) ==
  IF d_ind = NONE \/ r.c.panic THEN r
  ELSE LET c1 == COND_block_read(r.c, d_ind)
           iddi == Words(ReadBlock(r.c, d_ind))
       IN Only({[r1 EXCEPT !.rel = @ \o <<d_ind>>] : r1 \in
                  {ReleaseIndirects([c |-> c1, rel |-> r.rel], iddi, 0)}})

ReleaseAll(c, sector, id) ==
  Only({ReleaseDouble(r, id.d_ind_blocks) : r \in
          {ReleaseIndirects([c |-> c, rel |-> <<sector>> \o UsedSlots(id.d_blocks, 0)],
                            id.ind_blocks, 0)}})

\* the record of the call that ended last (ghost)
Did(op, ino, off, size, ret_, buf) ==
  [op |-> op, ino |-> ino, off |-> off, size |-> size, ret |-> ret_, buf |-> buf]
NoHole == [ino |-> NONE, from |-> 0, to |-> 0]
NoRel == [ino |-> NONE, list |-> <<>>, owned |-> {}, before |-> {}]

\* a file system with the sectors `used` allocated, no file in the root
\* directory, nothing cached
FsWith(used) ==
  /\ free_map = used
  /\ blk = [s \in FsSectors |-> NotCached]
  /\ ahead = {}
  /\ open_inodes = <<>>
  /\ dir = <<>>
  /\ last = Did("none", NONE, 0, 0, 0, <<>>)
  /\ rel = NoRel
  /\ owned = <<>>
  /\ content = <<>>
  /\ hole = NoHole

\* do_format: the free-map and the root directory hold sectors 0 and 1; no
\* file exists, nothing is cached
InitFs == FsWith({0, 1})

(***************************************************************************)
(* Initial states and specifications of the cache                          *)
(***************************************************************************)
\* the process ids: the initial process and the processes it can start
Pids == 1 .. (MaxClients + 1)
\* a struct thread no process runs in
NoProcess == [state |-> "none", parent |-> NONE, creator |-> NONE,
              child_list |-> {}, finished_list |-> <<>>, is_waiting |-> FALSE,
              waiting_now |-> NONE, wait_exit |-> 0, wait_sema |-> 0]
\* a thread that is not inside filesys_create
NoCreate == [pc |-> "idle", name |-> <<>>, is_dir |-> FALSE, dr |-> NONE,
             filename |-> <<>>, inode_sector |-> NONE, data_sector |-> NONE]

\* a thread that is not inside inode_open
NoOpen == [pc |-> "idle", sector |-> NONE, ret |-> NONE]

\* the system-call layer after boot: inode_init leaves the open-inode list
\* empty, no thread is inside a call, do_format has made the root directory
\* its own parent, no thread has a current directory or an open file, the
\* initial process runs and has no child
InitSys ==
  /\ olist = <<>>
  /\ opn = [t \in Clients |-> NoOpen]
  /\ tree = [s \in {ROOT_DIR_SECTOR} |->
               [parent_dir |-> ROOT_DIR_SECTOR, ents |-> [n \in {} |-> NONE],
                sectors |-> {}, removed |-> FALSE]]
  /\ cwd = [t \in Clients |-> NONE]
  /\ next_fd = 2
  /\ fds = [t \in Clients |-> <<>>]
  /\ opens = [t \in Clients |-> <<>>]
  /\ ps = [p \in Pids |-> IF p = 1 THEN [NoProcess EXCEPT !.state = "run"]
                           ELSE NoProcess]
  /\ wrets = [pc \in Pids \X Pids |-> <<>>]
  /\ crt = [t \in Clients |-> NoCreate]
  /\ won = [t \in Clients |-> {}]

\* cache_init: every entry VALID, sec = -1, no reader, LRU list in array order
InitPool ==
  /\ sec = [i \in Entries |-> NONE]
  /\ flag = [i \in Entries |-> B_VALID]
  /\ data = [i \in Entries |-> 0]
  /\ reader_count = [i \in Entries |-> 0]
  /\ cache_lock = [i \in Entries |-> 0]
  /\ lru = [k \in 1 .. MaxCacheSize |-> k - 1]
  /\ device = InitDevice
  /\ sema = [t \in Clients |-> 0]
  /\ fl_pc = "sleep"
  /\ fl_i = 0
  /\ panicked = FALSE
  /\ shutdown = FALSE
  /\ latest = InitDevice
  /\ expect = [t \in Clients |-> Unknown]
  /\ wover = [t \in Clients |-> FALSE]
  /\ calls = 0
  /\ InitSys

\* cache_init on a freshly formatted file system
InitCache == InitPool /\ InitFs

(***************************************************************************)
(* cache_flush(), called by filesys_done at shutdown.                      *)
(*                                                                         *)
(*   for(i = 0 ; i < MAX_CACHE_SIZE ; i++)                                 *)
(*     cache_force_one(&_cache_buffer[i].elem, true);                      *)
(*                                                                         *)
(* cache_force_one takes a struct cache_e*, and is handed the address of   *)
(* the entry's list_elem, which is the LAST member of struct cache_e.  The *)
(* object it works on therefore starts at the end of entry i and overlays  *)
(* the locks of entry i+1 (for the last entry: memory past the pool).  It  *)
(* never reads entry i's flag and never writes entry i's data to entry i's *)
(* sector.  What it reads as "flag" is not a flag (undefined behaviour):   *)
(*   - no DIRTY bit there: no device write at all;                         *)
(*   - a DIRTY bit there: block_write of the overlaid bytes to the         *)
(*     overlaid "sec"; past the device that is a PANIC, inside it a stray  *)
(*     write.                                                              *)
(* oneblock_release then stores into the overlaid object, not into entry   *)
(* i, so sec, flag, data and reader_count of every entry stay as they are. *)
(***************************************************************************)
Quiescent == \A t \in Procs : th[t].pc \in {"idle", "off"}

\* the device after cache_flush, given the outcome of the overlaid flag reads
FlushDevice(dev, stray, s, v) == IF stray THEN [dev EXCEPT ![s] = v] ELSE dev

cache_flush ==
  /\ UNCHANGED inodeVars
  /\ Running
  /\ Quiescent
  /\ shutdown' = TRUE
  /\ \/ /\ \E stray \in BOOLEAN, s \in Sectors, v \in Values :
             device' = FlushDevice(device, stray, s, v)
        /\ UNCHANGED panicked
     \/ /\ panicked' = TRUE
        /\ UNCHANGED device
  /\ UNCHANGED <<cacheVars, threadVars, flushVars, ghostVars>>

\* the ghost `since` is kept only where it is asked for
NoSince == [s \in {} |-> {}]

\* one client thread, the read-ahead helpers and the write-back thread
InitSingle ==
  /\ InitCache
  /\ since = NoSince
  /\ th = [t \in Procs |-> IF t = 1 THEN IdleTh ELSE OffTh]

\* every client thread
InitMulti ==
  /\ InitCache
  /\ since = NoSince
  /\ th = [t \in Procs |-> IF t \in Clients THEN IdleTh ELSE OffTh]

\* one client thread; the ghost `since` follows every sector.  A sector that
\* was never accessed has itself in its set.
InitLRU ==
  /\ InitCache
  /\ since = [s \in Sectors |-> Sectors]
  /\ th = [t \in Procs |-> IF t = 1 THEN IdleTh ELSE OffTh]

CacheStep(t) ==
  \/ GetIdxScan(t) \/ GetIdxLock(t)
  \/ GetFreeScan(t) \/ GetFreeLock(t)
  \/ EvictTry(t) \/ EvictForce(t)
  \/ SetSec(t) \/ LoadAcquire(t) \/ LoadRead(t)
  \/ Spawn(t) \/ SemaDown(t)
  \/ Acquire(t) \/ Release(t)

\* the sectors the clients ask for; read-ahead reaches one sector further
ClientSectors == 0 .. (NumSectors - 2)
\* the sector the writing thread of the multi-client runs writes
WriteSectors == {s \in ClientSectors : s = Min(ClientSectors) + 1}

\* one client thread and its read-ahead helpers
NextThreads ==
  \/ \E s \in ClientSectors : Call(1, "read", s, 0, MaxCalls)
  \/ \E s \in ClientSectors : Call(1, "write", s, NewValue(s), MaxCalls)
  \/ \E t \in Procs : CacheStep(t)

\* ... with the write-back thread, until filesys_done
NextCache ==
  \/ NextThreads
  \/ FlusherWake \/ FlusherAcquire \/ FlusherWrite
  \/ cache_flush

\* a writing thread, a reading thread and their read-ahead helpers
NextMulti ==
  \/ \E s \in WriteSectors : Call(1, "write", s, NewValue(s), MaxCalls)
  \/ \E s \in ClientSectors : Call(MaxClients, "read", s, 0, MaxCalls)
  \/ \E t \in Procs : CacheStep(t)

\* one reading client and its read-ahead helpers, nothing else in use
NextLRU ==
  \/ \E s \in Sectors : Call(1, "read", s, 0, MaxCallsLRU)
  \/ \E t \in Procs : CacheStep(t)

\* one client, read-ahead, write-back thread, shutdown
SpecSingle == InitSingle /\ [][NextCache]_vars
\* a writer and a reader
SpecMulti == InitMulti /\ [][NextMulti]_vars
\* the LRU order under one reader
SpecLRU == InitLRU /\ [][NextLRU]_vars

(***************************************************************************)
(* The readers-writer protocol alone: every thread calls                   *)
(* cache_write_acquire / cache_write_release / cache_read_acquire /        *)
(* cache_read_release on any entry, in any order a caller may use them     *)
(* (release what you hold).                                                *)
(***************************************************************************)
cache_write_acquire(t, c) ==
  /\ UNCHANGED inodeVars
  /\ th[t].pc = "idle"
  /\ CanWriteAcquire(flag[c], reader_count[c])
  /\ flag' = [flag EXCEPT ![c] = WriteAcquireFlag(@)]
  /\ th' = [th EXCEPT ![t].pc = "wheld", ![t].buf = c]
  /\ UNCHANGED <<sec, data, reader_count, cache_lock, lru, device, sema,
                 flushVars, panicked, shutdown, ghostVars>>

cache_write_release(t) ==
  /\ UNCHANGED inodeVars
  /\ th[t].pc = "wheld"
  /\ IF WriteReleaseOk(flag[th[t].buf])
       THEN /\ flag' = [flag EXCEPT ![th[t].buf] = WriteReleaseFlag(@)]
            /\ UNCHANGED panicked
       ELSE /\ panicked' = TRUE
            /\ UNCHANGED flag
  /\ th' = [th EXCEPT ![t] = IdleTh]
  /\ UNCHANGED <<sec, data, reader_count, cache_lock, lru, device, sema,
                 flushVars, shutdown, ghostVars>>

cache_read_acquire(t, c) ==
  /\ UNCHANGED inodeVars
  /\ th[t].pc = "idle"
  /\ CanReadAcquire(flag[c])
  /\ reader_count' = [reader_count EXCEPT ![c] = ReadAcquireCount(@)]
  /\ th' = [th EXCEPT ![t].pc = "rheld", ![t].buf = c]
  /\ UNCHANGED <<sec, flag, data, cache_lock, lru, device, sema,
                 flushVars, panicked, shutdown, ghostVars>>

cache_read_release(t) ==
  /\ UNCHANGED inodeVars
  /\ th[t].pc = "rheld"
  /\ IF ReadReleaseOk(reader_count[th[t].buf])
       THEN /\ reader_count' = [reader_count EXCEPT ![th[t].buf] = ReadReleaseCount(@)]
            /\ UNCHANGED panicked
       ELSE /\ panicked' = TRUE
            /\ UNCHANGED reader_count
  /\ th' = [th EXCEPT ![t] = IdleTh]
  /\ UNCHANGED <<sec, flag, data, cache_lock, lru, device, sema,
                 flushVars, shutdown, ghostVars>>

InitRW ==
  /\ InitCache
  /\ since = NoSince
  /\ th = [t \in Procs |-> IdleTh]

NextRW ==
  \/ \E t \in Procs, c \in Entries : cache_write_acquire(t, c)
  \/ \E t \in Procs : cache_write_release(t)
  \/ \E t \in Procs, c \in Entries : cache_read_acquire(t, c)
  \/ \E t \in Procs : cache_read_release(t)

SpecRW == InitRW /\ [][NextRW]_vars

(***************************************************************************)
(* The file system as a state machine: one action per call.  A call runs   *)
(* to its end; read-ahead helpers that a call left behind finish their     *)
(* loads between calls.                                                    *)
(***************************************************************************)
\* the kernel state a call starts from
Kernel == [blk |-> blk, ahead |-> ahead, panic |-> FALSE]

Put(f, k, v) == [x \in (DOMAIN f) \cup {k} |-> IF x = k THEN v ELSE f[x]]
Drop(f, k) == [x \in (DOMAIN f) \ {k} |-> f[x]]


\* a PANIC of the kernel: nothing runs after it
Panic ==
  /\ panicked' = TRUE
  /\ UNCHANGED <<free_map, blk, ahead, open_inodes, dir, last, rel, owned,
                 content, hole>>

\* the rest of cacheLoadThread for sector q: cache_write_acquire, block_read
\* of the device's sector into the entry, cache_write_release
AheadLoad(q) ==
  /\ ~panicked
  /\ q \in ahead
  /\ blk' = [blk EXCEPT ![q] = JunkBlock]
  /\ ahead' = ahead \ {q}
  /\ UNCHANGED <<free_map, open_inodes, dir, last, rel, owned, content, hole,
                 panicked, calls>>
  /\ UNCHANGED cacheAll

\* filesys_create (name, initial_size, false) in the root directory
filesys_create(name, initial_size) ==
  /\ ~panicked
  /\ calls < MaxOps
  /\ calls' = calls + 1
  /\ \E inode_sector \in {free_map_allocate(free_map)} :
     \E r \in {IF inode_sector = NONE THEN Kernel
               ELSE inode_create(Kernel, free_map \cup {inode_sector},
                                 inode_sector, initial_size)} :
     LET success == r.ok /\ dir_add(dir, name, inode_sector) /= dir
     IN IF inode_sector = NONE
          THEN /\ last' = Did("create", NONE, 0, initial_size, 0, <<>>)
               /\ UNCHANGED <<free_map, blk, ahead, dir, owned, content, panicked>>
          ELSE IF r.c.panic THEN Panic
          ELSE /\ blk' = r.c.blk
               /\ ahead' = r.c.ahead
               /\ free_map' = IF success THEN r.fm ELSE r.fm \ {inode_sector}
               /\ dir' = IF r.ok THEN dir_add(dir, name, inode_sector) ELSE dir
               /\ owned' = IF success
                             THEN Put(owned, inode_sector, r.got \cup {inode_sector})
                             ELSE owned
               /\ content' = IF success
                               THEN Put(content, inode_sector,
                                        [k \in 1 .. initial_size |-> 0])
                               ELSE content
               /\ last' = Did("create", inode_sector, 0, initial_size,
                              IF success THEN 1 ELSE 0, <<>>)
               /\ UNCHANGED panicked
  /\ UNCHANGED <<open_inodes, rel, hole>>
  /\ UNCHANGED cacheAll

\* inode_open (sector): the open-inode list after the call, and the cache
InodeOpen(c, inodes, sector) ==
  IF sector \in DOMAIN inodes
    THEN [c |-> c, inodes |-> [inodes EXCEPT ![sector].open_cnt = @ + 1]]
    ELSE [c |-> COND_block_read(c, sector),
          inodes |-> Put(inodes, sector,
                         [open_cnt |-> 1, deny_write_cnt |-> 0, removed |-> FALSE,
                          data |-> DiskInode(ReadBlock(c, sector))])]

\* inode_close (inode): the open-inode list, the cache and the sectors
\* released, in order
InodeClose(c, inodes, sector) ==
  IF inodes[sector].open_cnt - 1 /= 0
    THEN [c |-> c, rel |-> <<>>, freed |-> FALSE,
          inodes |-> [inodes EXCEPT ![sector].open_cnt = @ - 1]]
    ELSE IF inodes[sector].removed
      THEN Only({[c |-> r.c, rel |-> r.rel, freed |-> TRUE,
                  inodes |-> Drop(inodes, sector)] :
                 r \in {ReleaseAll(c, sector, inodes[sector].data)}})
      ELSE [c |-> c, rel |-> <<>>, freed |-> FALSE, inodes |-> Drop(inodes, sector)]

\* the effect of an inode_close on the file system state
Closed(sector, r) ==
  IF r.c.panic THEN Panic
  ELSE /\ blk' = r.c.blk
       /\ ahead' = r.c.ahead
       /\ open_inodes' = r.inodes
       /\ free_map' = free_map_release(free_map, r.rel)
       /\ rel' = IF r.freed
                   THEN [ino |-> sector, list |-> r.rel,
                         owned |-> IF sector \in DOMAIN owned THEN owned[sector] ELSE {},
                         before |-> free_map]
                   ELSE rel
       /\ owned' = IF r.freed THEN Drop(owned, sector) ELSE owned
       /\ content' = IF r.freed THEN Drop(content, sector) ELSE content
       /\ hole' = IF r.freed /\ hole.ino = sector THEN NoHole ELSE hole
       /\ UNCHANGED panicked

\* filesys_open (name): dir_lookup in the root directory, inode_open
filesys_open(name) ==
  /\ ~panicked
  /\ calls < MaxOps
  /\ calls' = calls + 1
  /\ IF dir_lookup(dir, name) = NONE
       THEN /\ last' = Did("open", NONE, 0, 0, 0, <<>>)
            /\ UNCHANGED <<blk, ahead, open_inodes, panicked>>
       ELSE /\ dir_lookup(dir, name) \in DOMAIN open_inodes =>
                 open_inodes[dir_lookup(dir, name)].open_cnt < MaxOpen
            /\ \E r \in {InodeOpen(Kernel, open_inodes, dir_lookup(dir, name))} :
                  IF r.c.panic
                    THEN /\ panicked' = TRUE
                         /\ UNCHANGED <<blk, ahead, open_inodes, last>>
                    ELSE /\ blk' = r.c.blk
                         /\ ahead' = r.c.ahead
                         /\ open_inodes' = r.inodes
                         /\ last' = Did("open", dir_lookup(dir, name), 0, 0, 1, <<>>)
                         /\ UNCHANGED panicked
  /\ UNCHANGED <<free_map, dir, rel, owned, content, hole>>
  /\ UNCHANGED cacheAll

\* inode_close (inode) by an opener that has no inode_deny_write outstanding
inode_close(sector) ==
  /\ ~panicked
  /\ calls < MaxOps
  /\ calls' = calls + 1
  /\ sector \in DOMAIN open_inodes
  /\ open_inodes[sector].deny_write_cnt < open_inodes[sector].open_cnt
  /\ \E r \in {InodeClose(Kernel, open_inodes, sector)} :
       /\ Closed(sector, r)
       /\ last' = IF r.c.panic THEN last ELSE Did("close", sector, 0, 0, 0, <<>>)
  /\ UNCHANGED dir
  /\ UNCHANGED cacheAll

\* dir_remove (dir, name) for an entry that exists: open the inode, erase the
\* entry, inode_remove, inode_close
dir_remove(c, inodes, sector) ==
  Only({InodeClose(o.c, [o.inodes EXCEPT ![sector].removed = TRUE], sector) :
        o \in {InodeOpen(c, inodes, sector)}})

\* filesys_remove (name) in the root directory
filesys_remove(name) ==
  /\ ~panicked
  /\ calls < MaxOps
  /\ calls' = calls + 1
  /\ IF dir_lookup(dir, name) = NONE
       THEN /\ last' = Did("remove", NONE, 0, 0, 0, <<>>)
            /\ UNCHANGED <<free_map, blk, ahead, open_inodes, dir, rel, owned,
                           content, hole, panicked>>
       ELSE \E sector \in {dir_lookup(dir, name)} :
            \E r \in {dir_remove(Kernel, open_inodes, sector)} :
               /\ Closed(sector, r)
               /\ dir' = IF r.c.panic THEN dir ELSE dir_erase(dir, name)
               /\ last' = IF r.c.panic THEN last
                          ELSE Did("remove", sector, 0, 0, 1, <<>>)
  /\ UNCHANGED cacheAll

\* the bytes of a file after size bytes were written at offset (ghost)
Written(old, size, offset) ==
  [k \in 1 .. (IF offset + size > Len(old) THEN offset + size ELSE Len(old)) |->
     IF k > offset /\ k <= offset + size THEN DataByte
     ELSE IF k <= Len(old) THEN old[k] ELSE 0]

\* inode_write_at (inode, buffer, size, offset)
inode_write_at(sector, size, offset) ==
  /\ ~panicked
  /\ calls < MaxOps
  /\ calls' = calls + 1
  /\ sector \in DOMAIN open_inodes
  /\ \E ino \in {open_inodes[sector]} :
     \E g \in {IF WriteDenied(ino) THEN WriteGrow(Kernel, free_map, ino, sector, 0, 0)
               ELSE WriteGrow(Kernel, free_map, ino, sector, size, offset)} :
     \E w \in {WriteLoop([c |-> g.c,
                           size |-> IF WriteDenied(ino) THEN 0 ELSE size,
                           offset |-> offset, written |-> 0], g.id)} :
        IF WriteDenied(ino)
          THEN /\ last' = Did("write", sector, offset, size, 0, <<>>)
               /\ UNCHANGED <<free_map, blk, ahead, open_inodes, owned, content,
                              hole, panicked>>
          ELSE IF g.c.panic \/ w.c.panic
            THEN /\ panicked' = TRUE
                 /\ UNCHANGED <<free_map, blk, ahead, open_inodes, owned, content,
                                hole, last>>
            ELSE /\ blk' = w.c.blk
                 /\ ahead' = w.c.ahead
                 /\ free_map' = g.fm
                 /\ open_inodes' = [open_inodes EXCEPT ![sector].data = g.id]
                 /\ owned' = IF sector \in DOMAIN owned
                               THEN [owned EXCEPT ![sector] = @ \cup g.got]
                               ELSE owned
                 /\ content' = IF sector \in DOMAIN content
                                 THEN [content EXCEPT ![sector] =
                                         Written(@, size, offset)]
                                 ELSE content
                 /\ hole' = IF offset > ino.data.length
                              THEN [ino |-> sector, from |-> ino.data.length,
                                    to |-> offset]
                              ELSE IF hole.ino = sector THEN NoHole ELSE hole
                 /\ last' = Did("write", sector, offset, size, w.written, <<>>)
                 /\ UNCHANGED panicked
  /\ UNCHANGED <<dir, rel>>
  /\ UNCHANGED cacheAll

\* inode_read_at (inode, buffer, size, offset)
inode_read(sector, size, offset) ==
  /\ ~panicked
  /\ calls < MaxOps
  /\ calls' = calls + 1
  /\ sector \in DOMAIN open_inodes
  /\ \E r \in {inode_read_at(Kernel, open_inodes[sector].data, sector = 0,
                               size, offset)} :
        IF r.c.panic
          THEN /\ panicked' = TRUE
               /\ UNCHANGED <<blk, ahead, last>>
          ELSE /\ blk' = r.c.blk
               /\ ahead' = r.c.ahead
               /\ last' = Did("read", sector, offset, size, Len(r.buf), r.buf)
               /\ UNCHANGED panicked
  /\ UNCHANGED <<free_map, open_inodes, dir, rel, owned, content, hole>>
  /\ UNCHANGED cacheAll

\* an inode_deny_write without its assertion
DenyAssertOk_None(ino) == TRUE
\* inode->deny_write_cnt++; ASSERT (inode->deny_write_cnt <= inode->open_cnt)
DenyAssertOk(ino) == ino.deny_write_cnt + 1 <= ino.open_cnt

\* inode_deny_write (inode)
inode_deny_write(sector) ==
  /\ ~panicked
  /\ calls < MaxOps
  /\ calls' = calls + 1
  /\ sector \in DOMAIN open_inodes
  /\ IF DenyAssertOk(open_inodes[sector])
       THEN /\ open_inodes' = [open_inodes EXCEPT ![sector].deny_write_cnt = @ + 1]
            /\ last' = Did("deny", sector, 0, 0, 0, <<>>)
            /\ UNCHANGED panicked
       ELSE /\ panicked' = TRUE
            /\ UNCHANGED <<open_inodes, last>>
  /\ UNCHANGED <<free_map, blk, ahead, dir, rel, owned, content, hole>>
  /\ UNCHANGED cacheAll

\* inode_allow_write (inode)
inode_allow_write(sector) ==
  /\ ~panicked
  /\ calls < MaxOps
  /\ calls' = calls + 1
  /\ sector \in DOMAIN open_inodes
  /\ IF open_inodes[sector].deny_write_cnt > 0
        /\ open_inodes[sector].deny_write_cnt <= open_inodes[sector].open_cnt
       THEN /\ open_inodes' = [open_inodes EXCEPT ![sector].deny_write_cnt = @ - 1]
            /\ last' = Did("allow", sector, 0, 0, 0, <<>>)
            /\ UNCHANGED panicked
       ELSE /\ panicked' = TRUE
            /\ UNCHANGED <<open_inodes, last>>
  /\ UNCHANGED <<free_map, blk, ahead, dir, rel, owned, content, hole>>
  /\ UNCHANGED cacheAll

\* the file system after do_format, nothing cached, no file open
InitInode ==
  /\ InitCache
  /\ since = NoSince
  /\ th = [t \in Procs |-> OffTh]

NextInode ==
  \/ \E n \in Names, z \in CreateSizes : filesys_create(n, z)
  \/ \E n \in Names : filesys_open(n)
  \/ \E n \in Names : filesys_remove(n)
  \/ \E s \in FsSectors : inode_close(s)
  \/ \E s \in FsSectors, z \in WriteSizes, o \in WriteOffsets : inode_write_at(s, z, o)
  \/ \E s \in FsSectors, z \in ReadSizes, o \in ReadOffsets : inode_read(s, z, o)
  \/ \E s \in FsSectors : inode_deny_write(s)
  \/ \E s \in FsSectors : inode_allow_write(s)
  \/ \E q \in FsSectors : AheadLoad(q)

SpecInode == InitInode /\ [][NextInode]_vars

\* inode_close (inode) by an opener whose inode_deny_write is outstanding
inode_close_denied(sector) ==
  /\ ~panicked
  /\ calls < MaxOps
  /\ calls' = calls + 1
  /\ sector \in DOMAIN open_inodes
  /\ open_inodes[sector].deny_write_cnt > 0
  /\ \E r \in {InodeClose(Kernel, open_inodes, sector)} :
       /\ Closed(sector, r)
       /\ last' = IF r.c.panic THEN last ELSE Did("close", sector, 0, 0, 0, <<>>)
  /\ UNCHANGED dir
  /\ UNCHANGED cacheAll

\* every sequence of calls on the inodes, by openers that allow before they
\* close and by openers that do not
NextAnyClose ==
  \/ \E n \in Names : filesys_open(n)
  \/ \E n \in Names : filesys_remove(n)
  \/ \E s \in FsSectors : inode_close(s)
  \/ \E s \in FsSectors : inode_close_denied(s)
  \/ \E s \in FsSectors : inode_deny_write(s)
  \/ \E s \in FsSectors : inode_allow_write(s)
  \/ \E q \in FsSectors : AheadLoad(q)

\* the file system after do_format and one filesys_create of an empty file
InitCreated ==
  /\ InitPool
  /\ since = NoSince
  /\ th = [t \in Procs |-> OffTh]
  /\ \E n \in {Only(Names)} :
     \E s \in {free_map_allocate({0, 1})} :
     \E r \in {inode_create([blk |-> [q \in FsSectors |-> NotCached],
                              ahead |-> {}, panic |-> FALSE],
                             {0, 1, s}, s, 0)} :
        /\ free_map = r.fm
        /\ blk = r.c.blk
        /\ ahead = r.c.ahead
        /\ dir = dir_add(<<>>, n, s)
        /\ owned = Put(<<>>, s, r.got \cup {s})
        /\ content = Put(<<>>, s, <<>>)
        /\ last = Did("create", s, 0, 0, 1, <<>>)
  /\ open_inodes = <<>>
  /\ rel = NoRel
  /\ hole = NoHole

SpecAnyClose == InitCreated /\ [][NextAnyClose]_vars

\* a nearly full device: all but the last SpareSectors sectors are held by
\* files that take no part in the calls
FullSectors == {s \in FsSectors : s < DeviceSize - SpareSectors}

InitFull ==
  /\ InitPool
  /\ FsWith(FullSectors)
  /\ since = NoSince
  /\ th = [t \in Procs |-> OffTh]

SpecFull == InitFull /\ [][NextInode]_vars

(***************************************************************************)
(* Properties of the cache                                                 *)
(***************************************************************************)
\* a client has copied the bytes of its cache_read and is about to return
ReadDone(t) == th[t].pc = "release" /\ th[t].op = "read"

\* C1: with one client thread (helpers and write-back thread running), every
\* cache_read(s) returns the bytes of the latest preceding cache_write(s), or
\* the device contents of s if s was never written.
C1_ReadReturnsLatest ==
  \A t \in Clients : ReadDone(t) => th[t].val = latest[th[t].sec]

\* C2: under every interleaving of threads, a cache_read(s) that starts after
\* cache_write(s, X) completed, with no other write to s since, returns X.
C2_ReadReturnsCompletedWrite ==
  \A t \in Clients :
    (ReadDone(t) /\ expect[t] /= Unknown /\ expect[t] /= InitDevice[th[t].sec])
      => th[t].val = expect[t]

\* C3: after cache_write(s, X) and cache_flush(), the device holds X at s, no
\* entry is DIRTY and every flushed entry is released (sec = NONE, flag = VALID).
C3_FlushRoundTrip ==
  (shutdown /\ ~panicked) =>
     /\ \A s \in Sectors : latest[s] /= InitDevice[s] => device[s] = latest[s]
     /\ \A i \in Entries : ~HasBit(flag[i], B_DIRTY)
     /\ \A i \in Entries : sec[i] = NONE /\ flag[i] = B_VALID

\* the threads that hold writer / reader access to entry c
WriteHolders(c) == {t \in Procs : th[t].pc = "wheld" /\ th[t].buf = c}
ReadHolders(c) == {t \in Procs : th[t].pc = "rheld" /\ th[t].buf = c}

\* C4: under every interleaving of the four rw functions, an entry has at most
\* one writer, no reader while it has a writer (WRITER set implies
\* reader_count = 0), and any number of readers otherwise.
C4_ReadersWriterExclusion ==
  \A c \in Entries :
    /\ Cardinality(WriteHolders(c)) <= 1
    /\ WriteHolders(c) /= {} => ReadHolders(c) = {}
    /\ HasBit(flag[c], B_WRITER) <=> WriteHolders(c) /= {}
    /\ HasBit(flag[c], B_WRITER) => reader_count[c] = 0
    /\ reader_count[c] = Cardinality(ReadHolders(c))
    /\ ~panicked

\* two readers hold one entry at once, and another entry has its writer
C4_Witness ==
  \E c, d \in Entries :
    /\ Cardinality(ReadHolders(c)) >= 2
    /\ WriteHolders(d) /= {}

\* sector S was accessed, and MAX_CACHE_SIZE distinct other sectors after it
AgedOut(S) == S \notin since[S] /\ Cardinality(since[S]) >= MaxCacheSize
Cached(S) == \E i \in Entries : sec[i] = S

\* C5 (first half): on a saturated cache with nothing in use, a sector that
\* was accessed and then followed by accesses to MAX_CACHE_SIZE distinct other
\* sectors is no longer cached.
C5_AgedOutNotCached ==
  \A S \in Sectors : (Quiescent /\ AgedOut(S)) => ~Cached(S)

\* the entries behind position pos of the LRU list (less recently used)
Behind(e) == {lru[k] : k \in (IndexOf(lru, e) + 1) .. Len(lru)}

\* C5 (second half): the entry cache_eviction is about to release is the least
\* recently used entry that is not in use: every entry behind it in the LRU
\* list is free or in use.
C5_ReleasedIsLRU ==
  \A t \in Procs : th[t].pc = "evict_force" =>
     \A j \in Behind(th[t].pos) : flag[j] = B_VALID \/ InUse(j)

\* C5: LRU discipline: after sector S is accessed and then MAX_CACHE_SIZE
\* distinct other sectors are accessed, S is no longer cached; the entry
\* released by eviction is always the least recently used entry not in use.
C5_LRUDiscipline == C5_AgedOutNotCached /\ C5_ReleasedIsLRU

(***************************************************************************)
(* Properties of the inode layer                                           *)
(***************************************************************************)
\* the open inodes
OpenInodes == DOMAIN open_inodes
\* the offsets of an open inode
OffsetsOf(s) == 0 .. (open_inodes[s].data.length - 1)

\* C6: after any sequence of inode_create and inode_write_at calls, for every
\* open inode and every offset o with 0 <= o < length, byte_to_sector (inode, o)
\* returns a sector, not NONE, that the free-map marks allocated.
C6_ByteToSectorAllocated ==
  ~panicked =>
    \A s \in OpenInodes : \A o \in OffsetsOf(s) :
       \E b \in {byte_to_sector(Kernel, open_inodes[s].data, o)} :
          /\ ~b.c.panic
          /\ b.sec /= NONE
          /\ b.sec \in free_map

\* the sectors of a list of released sectors
RangeOf(list) == {list[k] : k \in 1 .. Len(list)}

\* a removed inode was closed by its last opener
LastClose == rel.ino /= NONE

\* C7: when an inode marked removed is closed by its last opener, every sector
\* it owns is released to the free-map exactly once, none is left allocated and
\* no sector it does not own is released.
C7_ReleasedExactlyOnce ==
  LastClose =>
    /\ RangeOf(rel.list) = rel.owned
    /\ Len(rel.list) = Cardinality(rel.owned)

\* the bytes of a hole: the gap between the old end of file and the offset of
\* a write past it
HoleSize == hole.to - hole.from
Zeros(n) == [k \in 1 .. n |-> 0]

\* C8: after inode_write_at writes at an offset L greater than the length,
\* every sector between the old end of file and L is allocated and zeroed, and
\* an inode_read_at over [old length, L) returns L - old length zero bytes.
C8_HoleReadsZero ==
  (~panicked /\ hole.ino \in OpenInodes) =>
    /\ \A o \in hole.from .. (hole.to - 1) :
         byte_to_sector(Kernel, open_inodes[hole.ino].data, o).sec \in free_map
    /\ \E r \in {inode_read_at(Kernel, open_inodes[hole.ino].data, FALSE,
                               HoleSize, hole.from)} :
         ~r.c.panic /\ r.buf = Zeros(HoleSize)
    /\ (last.op = "read" /\ last.ino = hole.ino /\ last.off = hole.from
          /\ last.size = HoleSize)
         => (last.ret = HoleSize /\ last.buf = Zeros(HoleSize))

\* a step that is a call of inode_write_at on an inode whose deny_write_cnt
\* is positive
DeniedWriteStep ==
  /\ calls' = calls + 1
  /\ ~panicked'
  /\ last'.op = "write"
  /\ last'.ino \in OpenInodes
  /\ open_inodes[last'.ino].deny_write_cnt > 0

\* C9: while deny_write_cnt > 0 for an inode, inode_write_at on it returns 0
\* and leaves the inode's length, its index slots, the free-map and all data
\* sectors unchanged, for any offset and size.
C9_DeniedWriteNoEffect ==
  [][DeniedWriteStep =>
       (last'.ret = 0 /\ UNCHANGED <<open_inodes, free_map, blk, ahead>>)]_vars

\* a denied write past the end of file has returned
C9_Witness ==
  /\ last.op = "write"
  /\ last.ino \in OpenInodes
  /\ open_inodes[last.ino].deny_write_cnt > 0
  /\ last.ret = 0
  /\ last.off + last.size > open_inodes[last.ino].data.length

\* the inodes that were removed and are still open
RemovedOpen == {s \in OpenInodes : open_inodes[s].removed}

\* the bytes a read of size bytes at offset off of a file holding cont returns
ReadExpected(cont, off, size) ==
  [k \in 1 .. (IF Len(cont) - off < 0 THEN 0
               ELSE MinOf(size, Len(cont) - off)) |-> cont[off + k]]

\* C10: an inode removed while open stays usable: reads on the open handle
\* return its prior contents, none of its sectors is released until the open
\* count reaches zero, and lookups of the removed name fail in the meantime.
C10_RemovedStaysUsable ==
  ~panicked =>
    \A s \in RemovedOpen :
      /\ (last.op = "read" /\ last.ino = s)
           => last.buf = ReadExpected(content[s], last.off, last.size)
      /\ owned[s] \subseteq free_map
      /\ \A n \in Names : dir_lookup(dir, n) /= s

(***************************************************************************)
(* Properties of inode_read_at and inode_write_at at their limits          *)
(***************************************************************************)
\* the offsets at or beyond the end of an open inode
OffsetsBeyond(s) == open_inodes[s].data.length .. (MaxFileBytes + 1)

\* C11: inode_read_at with an offset at or beyond the inode's length returns 0
\* bytes without reading a data sector and without failing an assertion, for
\* every length (0, multiples of the sector size, the index boundaries).
C11_ReadPastEofReturnsZero ==
  ~panicked =>
    \A s \in OpenInodes : \A o \in OffsetsBeyond(s) : \A z \in ReadSizes :
      \E r \in {inode_read_at(Kernel, open_inodes[s].data, FALSE, z, o)} :
         /\ ~r.c.panic
         /\ r.buf = <<>>
         /\ r.c.blk = blk

\* the growth of a write of z bytes at offset o on open inode s, as
\* inode_write_at calls allocate_inode_data
GrowthOf(s, z, o) ==
  allocate_inode_data(Kernel, free_map, open_inodes[s].data,
                      bytes_to_sectors(o + z),
                      bytes_to_sectors(open_inodes[s].data.length))

\* the free-map runs out during the growth of that write
Exhausted(s, z, o) ==
  /\ ~WriteDenied(open_inodes[s])
  /\ o + z > open_inodes[s].data.length
  /\ \E a \in {GrowthOf(s, z, o)} : ~a.ok /\ ~a.c.panic

\* C12: when the free-map is exhausted during a growing inode_write_at, the
\* write does not halt the kernel: it returns fewer bytes than requested and
\* the open inode's length is not updated.
C12_ExhaustionIsShortWrite ==
  ~panicked =>
    \A s \in OpenInodes : \A z \in WriteSizes : \A o \in WriteOffsets :
      Exhausted(s, z, o) =>
        \E g \in {WriteGrow(Kernel, free_map, open_inodes[s], s, z, o)} :
          /\ ~g.c.panic
          /\ g.id.length = open_inodes[s].data.length
          /\ \E w \in {WriteLoop([c |-> g.c, size |-> z, offset |-> o,
                                  written |-> 0], g.id)} :
               ~w.c.panic /\ w.written < z

(***************************************************************************)
(* Properties of the in-memory inodes                                      *)
(***************************************************************************)
\* I4 on a list of open inodes
DenyAtMostOpen(inodes) ==
  \A s \in DOMAIN inodes : inodes[s].deny_write_cnt <= inodes[s].open_cnt

\* C13: for every in-memory inode deny_write_cnt <= open_cnt holds in every
\* state reachable by any sequence of inode_open, inode_reopen, inode_close,
\* inode_deny_write and inode_allow_write calls.
C13_DenyAtMostOpen == DenyAtMostOpen(open_inodes)

\* a step that closes an inode all of whose openers have a deny outstanding
ClosesFullyDenied ==
  \E s \in OpenInodes :
    /\ open_inodes[s].deny_write_cnt = open_inodes[s].open_cnt
    /\ \/ s \notin DOMAIN open_inodes'
       \/ open_inodes'[s].open_cnt = open_inodes[s].open_cnt - 1

\* C13 (amended): every call other than an inode_close of an inode whose
\* deny_write_cnt equals its open_cnt keeps deny_write_cnt <= open_cnt for
\* every in-memory inode.
C13_DenyAtMostOpen_Kept ==
  [][(DenyAtMostOpen(open_inodes) /\ ~ClosesFullyDenied)
       => DenyAtMostOpen(open_inodes')]_vars

\* an opener has closed an inode on which another opener's deny stays
\* outstanding: the counts are equal after the close
C13_Witness ==
  /\ last.op = "close"
  /\ last.ino \in OpenInodes
  /\ open_inodes[last.ino].deny_write_cnt = open_inodes[last.ino].open_cnt
  /\ open_inodes[last.ino].open_cnt > 0

(***************************************************************************)
(* inode_open, inode_reopen and inode_close called by several threads.     *)
(* The kernel is preemptive and inode.c takes no lock: a thread can lose   *)
(* the processor between the scan of open_inodes and list_push_front (the  *)
(* malloc between them can block as well) and inside COND_block_read.      *)
(* olist is struct list open_inodes, front first; id is the address of the *)
(* struct inode.                                                           *)
(***************************************************************************)
\* the sectors inode_open is called with: those of the directory entries
\* (dir_lookup) and the root directory's (dir_open_root)
OpenSectors == {ROOT_DIR_SECTOR} \cup {dir[n] : n \in DOMAIN dir}

\* the positions of the in-memory inodes of a sector in the list
Listed(list, sector) == {i \in 1 .. Len(list) : list[i].sector = sector}

\* the addresses malloc has not handed out
FreshId(list) ==
  Min((1 .. (Len(list) + MaxClients + 1))
        \ ({list[i].id : i \in 1 .. Len(list)}
             \cup {opn[t].ret : t \in Clients}))

\* inode_open (sector) up to the end of the scan: a hit is inode_reopen and
\* the return of the inode, a miss goes on to malloc
inode_open_scan(t, sector) ==
  /\ ~panicked
  /\ calls < MaxOps
  /\ calls' = calls + 1
  /\ opn[t].pc = "idle"
  /\ sector \in OpenSectors
  /\ IF Listed(olist, sector) /= {}
       THEN \E i \in {Min(Listed(olist, sector))} :
              /\ olist[i].open_cnt < MaxOpen
              /\ olist' = [olist EXCEPT ![i].open_cnt = @ + 1]
              /\ opn' = [opn EXCEPT ![t] = NoOpen]
              /\ last' = Did("reopen", sector, 0, 0, olist[i].id, <<>>)
       ELSE /\ opn' = [opn EXCEPT ![t] = [pc |-> "push", sector |-> sector,
                                          ret |-> FreshId(olist)]]
            /\ UNCHANGED <<olist, last>>
  /\ UNCHANGED <<free_map, blk, ahead, open_inodes, dir, rel, owned, content,
                 hole, panicked>>
  /\ UNCHANGED <<cacheVars, device, threadVars, flushVars, shutdown, latest,
                 expect, wover, since>>
  /\ UNCHANGED <<pathVars, procVars, createVars>>

\* list_push_front (&open_inodes, &inode->elem) and the initialisation
inode_open_push(t) ==
  /\ ~panicked
  /\ opn[t].pc = "push"
  /\ olist' = <<[id |-> opn[t].ret, sector |-> opn[t].sector, open_cnt |-> 1,
                 deny_write_cnt |-> 0, removed |-> FALSE]>> \o olist
  /\ opn' = [opn EXCEPT ![t].pc = "read"]
  /\ UNCHANGED <<free_map, blk, ahead, open_inodes, dir, last, rel, owned,
                 content, hole, panicked, calls>>
  /\ UNCHANGED <<cacheVars, device, threadVars, flushVars, shutdown, latest,
                 expect, wover, since>>
  /\ UNCHANGED <<pathVars, procVars, createVars>>

\* COND_block_read (fs_device, inode->sector, &inode->data); return inode
inode_open_read(t) ==
  /\ opn[t].pc = "read"
  /\ ~panicked
  /\ \E r \in {COND_block_read(Kernel, opn[t].sector)} :
       IF r.panic
         THEN /\ panicked' = TRUE
              /\ UNCHANGED <<blk, ahead, opn, last>>
         ELSE /\ blk' = r.blk
              /\ ahead' = r.ahead
              /\ opn' = [opn EXCEPT ![t] = NoOpen]
              /\ last' = Did("open", opn[t].sector, 0, 0, opn[t].ret, <<>>)
              /\ UNCHANGED panicked
  /\ UNCHANGED <<free_map, open_inodes, dir, rel, owned, content, hole, calls,
                 olist>>
  /\ UNCHANGED <<cacheVars, device, threadVars, flushVars, shutdown, latest,
                 expect, wover, since>>
  /\ UNCHANGED <<pathVars, procVars, createVars>>

\* inode_close (inode) of an inode that was not removed: the last closer
\* takes it off the list and frees it
inode_close_listed(i) ==
  /\ ~panicked
  /\ calls < MaxOps
  /\ calls' = calls + 1
  /\ i \in 1 .. Len(olist)
  /\ \A t \in Clients : opn[t].ret /= olist[i].id
  /\ olist' = IF olist[i].open_cnt - 1 = 0
                THEN [k \in 1 .. (Len(olist) - 1) |->
                        IF k < i THEN olist[k] ELSE olist[k + 1]]
                ELSE [olist EXCEPT ![i].open_cnt = @ - 1]
  /\ last' = Did("close", olist[i].sector, 0, 0, olist[i].id, <<>>)
  /\ UNCHANGED <<free_map, blk, ahead, open_inodes, dir, rel, owned, content,
                 hole, panicked, opn>>
  /\ UNCHANGED <<cacheVars, device, threadVars, flushVars, shutdown, latest,
                 expect, wover, since>>
  /\ UNCHANGED <<pathVars, procVars, createVars>>

NextOpenList ==
  \/ \E t \in Clients, s \in FsSectors : inode_open_scan(t, s)
  \/ \E t \in Clients : inode_open_push(t)
  \/ \E t \in Clients : inode_open_read(t)
  \/ \E i \in 1 .. (MaxClients * 2) : inode_close_listed(i)
  \/ \E q \in FsSectors : AheadLoad(q)

SpecOpenList == InitCreated /\ [][NextOpenList]_vars

\* C14: the open-inode list never contains two in-memory inodes with the same
\* sector, also when several threads are inside inode_open for that sector at
\* the same time; an inode_open of a sector that is on the list returns the
\* listed inode with its open_cnt raised by one.
C14_OneInodePerSector ==
  \A i, j \in 1 .. Len(olist) :
     olist[i].sector = olist[j].sector => i = j

(***************************************************************************)
(* Path names.  A string is the sequence of its characters without the     *)
(* terminating NUL; a char* that may be NULL is a record.                  *)
(***************************************************************************)
NullStr == [null |-> TRUE, s |-> <<>>]
StrOf(q) == [null |-> FALSE, s |-> q]

\* a name of n characters
X(n) == [i \in 1 .. n |-> "x"]
Dot == <<".">>
DotDot == <<".", ".">>
Sl == <<"/">>

\* the loop of get_filename_length: the characters before position i (counted
\* from 1) back to the nearest '/'
RECURSIVE CountBack(_, _)
CountBack(name, i) ==
  IF i = 0 THEN 0
  ELSE IF name[i] = "/" THEN 0
  ELSE 1 + CountBack(name, i - 1)

\* get_filename_length (name), for a name that is not empty
get_filename_length(name) ==
  IF name[Len(name)] = "/" THEN CountBack(name, Len(name) - 1)
  ELSE CountBack(name, Len(name))

\* the loop of div_part: the position of the last '/', 0 when there is none
RECURSIVE LastSlash(_, _)
LastSlash(name, i) ==
  IF i = 0 THEN 0
  ELSE IF name[i] = "/" THEN i
  ELSE LastSlash(name, i - 1)

\* div_part (name, &dir, &filename)
div_part(name) ==
  Only({IF i > 0
          THEN [dir |-> StrOf(SubSeq(name, 1, i - 1)),
                filename |-> SubSeq(name, i + 1, Len(name))]
          ELSE [dir |-> NullStr, filename |-> name] :
        i \in {LastSlash(name, Len(name))}})

\* the tokens strtok_r (s, "/", &save_ptr) returns, in order
RECURSIVE Tokens(_)
Tokens(s) ==
  IF s = <<>> THEN <<>>
  ELSE IF Head(s) = "/" THEN Tokens(Tail(s))
  ELSE Only({<<SubSeq(s, 1, k - 1)>> \o Tokens(SubSeq(s, k + 1, Len(s))) :
             k \in {Min({j \in 1 .. (Len(s) + 1) :
                           j = Len(s) + 1 \/ s[j] = "/"})}})

(***************************************************************************)
(* The directory tree.  tree[s] is the inode at sector s as inode_open     *)
(* reads it: parent_dir (NONE: a file), the entries of the directory, the  *)
(* data sectors it holds, removed once dir_remove has erased its entry.    *)
(***************************************************************************)
NoEntries == [n \in {} |-> NONE]
DirNode(parent, sectors) ==
  [parent_dir |-> parent, ents |-> NoEntries, sectors |-> sectors,
   removed |-> FALSE]
FileNode == DirNode(NONE, {})

\* inode_is_dir (inode)
inode_is_dir(node) == node.parent_dir /= NONE

\* dir_of_name from directory cur on: the directory the tokens lead to, NONE
\* when a component is missing or is no directory, NONE - 1 when ".."
\* is taken from an inode that is no directory (inode_open of sector -1)
RECURSIVE Walk(_, _, _)
Walk(tr, cur, toks) ==
  IF toks = <<>> THEN cur
  ELSE IF Head(toks) = Dot THEN Walk(tr, cur, Tail(toks))
  ELSE IF Head(toks) = DotDot
    THEN IF cur = ROOT_DIR_SECTOR THEN Walk(tr, cur, Tail(toks))
         ELSE IF tr[cur].parent_dir = NONE THEN NONE - 1
         ELSE Walk(tr, tr[cur].parent_dir, Tail(toks))
  ELSE IF dir_lookup(tr[cur].ents, Head(toks)) = NONE THEN NONE
  ELSE IF ~inode_is_dir(tr[dir_lookup(tr[cur].ents, Head(toks))]) THEN NONE
  ELSE Walk(tr, dir_lookup(tr[cur].ents, Head(toks)), Tail(toks))

\* a dir_of_name that starts every path at the root
dir_of_name_FromRoot(tr, assoc_dir, s) ==
  IF s.null /\ assoc_dir = NONE THEN ROOT_DIR_SECTOR
  ELSE IF s.null THEN assoc_dir
  ELSE Walk(tr, ROOT_DIR_SECTOR, Tokens(s.s))

\* dir_of_name (s) called by a thread whose current_dir is assoc_dir (NONE:
\* a null pointer)
dir_of_name(tr, assoc_dir, s) ==
  IF s.null /\ assoc_dir = NONE THEN ROOT_DIR_SECTOR
  ELSE IF s.null THEN assoc_dir
  ELSE IF assoc_dir /= NONE /\ Len(s.s) /= 0 /\ s.s[1] /= "/"
    THEN Walk(tr, assoc_dir, Tokens(s.s))
  ELSE Walk(tr, ROOT_DIR_SECTOR, Tokens(s.s))

\* the longest name of a directory entry
NAME_MAX == 14
\* sizeof (strlen (name) + 1): the bytes of a size_t, the size of temp
TempSize == 4

\* inode_open of sector -1: a read past the end of the device
BadSector == NONE - 1

\* strlcpy (temp, name, strlen (name) + 1) into the block of TempSize bytes:
\* a longer name is written past the end of the block, and the heap is
\* destroyed (TRUE) or not
Smash(name) == IF Len(name) + 1 > TempSize THEN BOOLEAN ELSE {FALSE}

\* dir_add (dir, name, inode_sector) succeeds
CanAdd(node, name) ==
  /\ Len(name) /= 0
  /\ Len(name) <= NAME_MAX
  /\ dir_lookup(node.ents, name) = NONE

\* the inodes held open: as a current_dir or through a file descriptor
Referenced(cw, fl) ==
  {cw[t] : t \in Clients}
    \cup UNION {{fl[t][i].sector : i \in 1 .. Len(fl[t])} : t \in Clients}

\* the removed inodes nobody holds open any more
Reapable(tr, fm, cw, fl) ==
  {s \in DOMAIN tr : tr[s].removed /\ s \in fm /\ s \notin Referenced(cw, fl)}

\* inode_close by the last opener of a removed inode: its sectors go back to
\* the free-map
Reap(tr, fm, cw, fl) ==
  fm \ UNION {{s} \cup tr[s].sectors : s \in Reapable(tr, fm, cw, fl)}

\* filesys_create (name, 0, is_dir) after the copy of the name
FsCreate(tr, fm, assoc_dir, name, is_dir) ==
  LET d == div_part(name)
      dr == dir_of_name(tr, assoc_dir, d.dir)
      inode_sector == free_map_allocate(fm)
      data_sector == free_map_allocate(fm \cup {inode_sector})
      fail == [ok |-> FALSE, bad |-> FALSE, tree |-> tr, fm |-> fm, ino |-> NONE,
               dr |-> NONE]
  IN IF dr = BadSector THEN [fail EXCEPT !.bad = TRUE]
     ELSE IF dr = NONE \/ inode_sector = NONE THEN fail
     ELSE IF is_dir /\ data_sector = NONE THEN fail
     ELSE IF ~CanAdd(tr[dr], d.filename)
       THEN [fail EXCEPT !.fm = IF is_dir THEN fm \cup {data_sector} ELSE fm]
     ELSE [ok |-> TRUE, bad |-> FALSE, ino |-> inode_sector, dr |-> dr,
           fm |-> fm \cup {inode_sector}
                     \cup (IF is_dir THEN {data_sector} ELSE {}),
           tree |-> Put([tr EXCEPT ![dr].ents =
                                     dir_add(@, d.filename, inode_sector)],
                        inode_sector,
                        IF is_dir THEN DirNode(dr, {data_sector}) ELSE FileNode)]

\* what the path calls leave alone
pathFrame == <<blk, ahead, open_inodes, dir, rel, owned, content, hole, olist,
               opn, cacheVars, device, threadVars, flushVars, shutdown, latest,
               expect, wover, since, procVars, createVars>>

SysCreate(t, name, is_dir, op) ==
  /\ calls' = calls + 1
  /\ IF Len(name) = 0
       THEN /\ last' = Did(op, NONE, t, 0, 0, name)
            /\ UNCHANGED <<tree, free_map, panicked>>
     ELSE IF get_filename_length(name) > NAME_MAX
       THEN /\ last' = Did(op, NONE, t, 0, 0, name)
            /\ UNCHANGED <<tree, free_map, panicked>>
     ELSE \E smashed \in Smash(name) :
          \E r \in {FsCreate(tree, free_map, cwd[t], name, is_dir)} :
            IF smashed \/ r.bad
              THEN /\ panicked' = TRUE
                   /\ last' = Did(op, NONE, t, 0, 0, name)
                   /\ UNCHANGED <<tree, free_map>>
              ELSE /\ tree' = r.tree
                   /\ free_map' = r.fm
                   /\ last' = Did(op, r.ino, t, 0, IF r.ok THEN 1 ELSE 0, name)
                   /\ UNCHANGED panicked
  /\ UNCHANGED <<cwd, next_fd, fds, opens>>
  /\ UNCHANGED pathFrame

\* syscall_create (file, 0) by thread t
syscall_create(t, name) ==
  /\ ~panicked
  /\ calls < MaxOps
  /\ SysCreate(t, name, FALSE, "create")

\* syscall_mkdir (dir) by thread t
syscall_mkdir(t, name) ==
  /\ ~panicked
  /\ calls < MaxOps
  /\ SysCreate(t, name, TRUE, "mkdir")

\* the strings the bytes at filename can spell after div_part has stored a
\* char * there
GarbageNames(tr) ==
  {<<>>, <<"?">>} \cup UNION {DOMAIN tr[s].ents : s \in DOMAIN tr}

\* the while loop of filesys_remove: div_part (direct, &temp2, filename)
\* receives filename where it expects &filename and stores the pointer in the
\* bytes filename points to
RECURSIVE RemoveLoop(_, _, _)
RemoveLoop(direct, filename, garbage) ==
  IF Len(filename) /= 0
    THEN {[done |-> FALSE, direct |-> direct, filename |-> filename]}
    ELSE UNION {
           LET temp2 == div_part(direct.s).dir
           IN IF \/ temp2.null /\ Len(g) = 0
                 \/ ~temp2.null /\ Len(temp2.s) = 0 /\ Len(g) = 0
                THEN {[done |-> TRUE, direct |-> temp2, filename |-> g]}
                ELSE RemoveLoop(temp2, g, garbage)
           : g \in garbage}

\* dir_remove (dir, name): fails when the entry is missing or is a directory
\* that has entries; erases the entry and removes the inode
tree_remove(tr, dr, name) ==
  IF dir_lookup(tr[dr].ents, name) = NONE THEN [ok |-> FALSE, tree |-> tr]
  ELSE Only({IF inode_is_dir(tr[s]) /\ DOMAIN tr[s].ents /= {}
               THEN [ok |-> FALSE, tree |-> tr]
               ELSE [ok |-> TRUE,
                     tree |-> [tr EXCEPT ![dr].ents = dir_erase(@, name),
                                         ![s].removed = TRUE]] :
             s \in {dir_lookup(tr[dr].ents, name)}})

\* syscall_remove (file) by thread t
syscall_remove(t, name) ==
  /\ ~panicked
  /\ calls < MaxOps
  /\ calls' = calls + 1
  /\ IF Len(name) = 0
       THEN /\ last' = Did("remove", NONE, t, 0, 0, name)
            /\ UNCHANGED <<tree, free_map, panicked>>
     ELSE IF get_filename_length(name) > NAME_MAX
       THEN /\ last' = Did("remove", NONE, t, 0, 0, name)
            /\ UNCHANGED <<tree, free_map, panicked>>
     ELSE \E d \in {div_part(name)} :
          \E smashed \in IF Len(d.filename) = 0 THEN BOOLEAN ELSE Smash(name) :
          \E w \in RemoveLoop(d.dir, d.filename, GarbageNames(tree)) :
          \E dr \in {IF w.done THEN NONE ELSE dir_of_name(tree, cwd[t], w.direct)} :
            IF smashed \/ dr = BadSector
              THEN /\ panicked' = TRUE
                   /\ last' = Did("remove", NONE, t, 0, 0, name)
                   /\ UNCHANGED <<tree, free_map>>
            ELSE IF w.done \/ w.filename = DotDot \/ w.filename = Dot \/ dr = NONE
              THEN /\ last' = Did("remove", NONE, t, 0, 0, name)
                   /\ UNCHANGED <<tree, free_map, panicked>>
            ELSE \E r \in {tree_remove(tree, dr, w.filename)} :
                   /\ tree' = r.tree
                   /\ free_map' = Reap(r.tree, free_map, cwd, fds)
                   /\ last' = Did("remove", NONE, t, 0, IF r.ok THEN 1 ELSE 0, name)
                   /\ UNCHANGED panicked
  /\ UNCHANGED <<cwd, next_fd, fds, opens>>
  /\ UNCHANGED pathFrame

\* the inode filesys_open (name) hands to file_open, after the copy of the
\* name: NONE is a null pointer
filesys_open_inode(tr, assoc_dir, name) ==
  LET d == div_part(name)
      dr == dir_of_name(tr, assoc_dir, d.dir)
  IN IF dr = BadSector \/ dr = NONE THEN dr
     ELSE IF d.filename = DotDot
       THEN IF tr[dr].parent_dir = NONE THEN BadSector ELSE tr[dr].parent_dir
     ELSE IF d.filename = Dot THEN dr
     ELSE IF Len(d.filename) /= 0 THEN dir_lookup(tr[dr].ents, d.filename)
     ELSE dr

\* the directory filesys_chdir (name) returns, after the copy of the name
filesys_chdir_dir(tr, assoc_dir, name) ==
  LET d == div_part(name)
      dr == dir_of_name(tr, assoc_dir, d.dir)
  IN IF dr = BadSector \/ dr = NONE THEN dr
     ELSE IF d.filename = DotDot
       THEN IF tr[dr].parent_dir = NONE THEN BadSector ELSE tr[dr].parent_dir
     ELSE IF d.filename = Dot THEN dr
     ELSE IF Len(d.filename) /= 0 THEN dir_lookup(tr[dr].ents, d.filename)
     ELSE dr

\* syscall_chdir (dir) by thread t
syscall_chdir(t, name) ==
  /\ ~panicked
  /\ calls < MaxOps
  /\ calls' = calls + 1
  /\ IF Len(name) = 0
       THEN /\ last' = Did("chdir", NONE, t, 0, 0, name)
            /\ UNCHANGED <<cwd, free_map, panicked>>
     ELSE IF get_filename_length(name) > NAME_MAX
       THEN /\ last' = Did("chdir", NONE, t, 0, 0, name)
            /\ UNCHANGED <<cwd, free_map, panicked>>
     ELSE \E smashed \in Smash(name) :
          \E this_dir \in {filesys_chdir_dir(tree, cwd[t], name)} :
            IF smashed \/ this_dir = BadSector
              THEN /\ panicked' = TRUE
                   /\ last' = Did("chdir", NONE, t, 0, 0, name)
                   /\ UNCHANGED <<cwd, free_map>>
            ELSE IF this_dir = NONE
              THEN /\ last' = Did("chdir", NONE, t, 0, 0, name)
                   /\ UNCHANGED <<cwd, free_map, panicked>>
            ELSE /\ cwd' = [cwd EXCEPT ![t] = this_dir]
                 /\ free_map' = Reap(tree, free_map, cwd', fds)
                 /\ last' = Did("chdir", this_dir, t, 0, 1, name)
                 /\ UNCHANGED panicked
  /\ UNCHANGED <<tree, next_fd, fds, opens>>
  /\ UNCHANGED pathFrame

\* allocate_fd: fd = next_fd++ under fd_lock; next_fd is static
allocate_fd(next) == [fd |-> next, next_fd |-> next + 1]

\* syscall_open (file) by thread t
syscall_open(t, name) ==
  /\ ~panicked
  /\ calls < MaxOps
  /\ calls' = calls + 1
  /\ IF Len(name) = 0
       THEN /\ last' = Did("open", NONE, t, 0, -1, name)
            /\ UNCHANGED <<next_fd, fds, opens, panicked>>
     ELSE IF get_filename_length(name) > NAME_MAX
       THEN /\ last' = Did("open", NONE, t, 0, -1, name)
            /\ UNCHANGED <<next_fd, fds, opens, panicked>>
     ELSE \E smashed \in Smash(name) :
          \E f \in {filesys_open_inode(tree, cwd[t], name)} :
            IF smashed \/ f = BadSector
              THEN /\ panicked' = TRUE
                   /\ last' = Did("open", NONE, t, 0, -1, name)
                   /\ UNCHANGED <<next_fd, fds, opens>>
            ELSE IF f = NONE
              THEN /\ last' = Did("open", NONE, t, 0, -1, name)
                   /\ UNCHANGED <<next_fd, fds, opens, panicked>>
            ELSE \E a \in {allocate_fd(next_fd)} :
                   /\ next_fd' = a.next_fd
                   /\ fds' = [fds EXCEPT ![t] =
                                Append(@, [fd |-> a.fd, sector |-> f])]
                   /\ opens' = [opens EXCEPT ![t] = Append(@, a.fd)]
                   /\ last' = Did("open", f, t, 0, a.fd, name)
                   /\ UNCHANGED panicked
  /\ UNCHANGED <<tree, cwd, free_map>>
  /\ UNCHANGED pathFrame

\* syscall_close (fd) by thread t, for a descriptor of its fd_list
syscall_close(t, i) ==
  /\ ~panicked
  /\ calls < MaxOps
  /\ calls' = calls + 1
  /\ i \in 1 .. Len(fds[t])
  /\ fds' = [fds EXCEPT ![t] = [k \in 1 .. (Len(@) - 1) |->
                                  IF k < i THEN @[k] ELSE @[k + 1]]]
  /\ free_map' = Reap(tree, free_map, cwd, fds')
  /\ last' = Did("close", fds[t][i].sector, t, 0, fds[t][i].fd, <<>>)
  /\ UNCHANGED <<tree, cwd, next_fd, opens, panicked>>
  /\ UNCHANGED pathFrame

\* n components "..", joined by '/'
RECURSIVE Up(_)
Up(n) == IF n = 1 THEN DotDot ELSE DotDot \o Sl \o Up(n - 1)

\* the path names the calls are made with
DirPaths == {X(1), Sl \o X(1), X(1) \o Sl \o X(1)}
FilePaths == {<<>>, X(1), X(NAME_MAX), X(NAME_MAX + 1),
              X(1) \o Sl \o X(NAME_MAX), X(1) \o Sl \o X(NAME_MAX + 1)}
DotPaths == {Dot, DotDot, DotDot \o Sl, Dot \o Sl, X(1) \o Sl \o DotDot,
             Up(2), Up(MaxUp)}
RemovePaths == {X(1), X(1) \o Sl, X(NAME_MAX), X(1) \o Sl \o X(1)} \cup DotPaths
ChdirPaths == {X(1), Sl} \cup DotPaths
OpenPaths == {X(1), X(NAME_MAX)} \cup DotPaths

NextPath ==
  \/ \E t \in Clients, p \in FilePaths : syscall_create(t, p)
  \/ \E t \in Clients, p \in DirPaths : syscall_mkdir(t, p)
  \/ \E t \in Clients, p \in RemovePaths : syscall_remove(t, p)
  \/ \E t \in Clients, p \in ChdirPaths : syscall_chdir(t, p)
  \/ \E t \in Clients, p \in OpenPaths : syscall_open(t, p)
  \/ \E t \in Clients, i \in 1 .. MaxOps : syscall_close(t, i)

\* the system calls on path names, on a freshly formatted file system
SpecPath == InitInode /\ [][NextPath]_vars

(***************************************************************************)
(* Properties of the calls on path names                                   *)
(***************************************************************************)
\* the directory a thread's relative path starts from
StartOf(t, name) ==
  IF cwd[t] /= NONE /\ Len(name) /= 0 /\ name[1] /= "/"
    THEN cwd[t] ELSE ROOT_DIR_SECTOR
\* the final component of a path, and the directory the components before it
\* lead to
FinalOf(name) == IF Tokens(name) = <<>> THEN <<>> ELSE Last(Tokens(name))
ParentOf(t, name) ==
  IF Tokens(name) = <<>> THEN StartOf(t, name)
  ELSE Walk(tree, StartOf(t, name),
            SubSeq(Tokens(name), 1, Len(Tokens(name)) - 1))
\* the inode a path names, NONE when there is none
TargetOf(t, name) ==
  IF ParentOf(t, name) \notin DOMAIN tree \/ FinalOf(name) = <<>> THEN NONE
  ELSE dir_lookup(tree[ParentOf(t, name)].ents, FinalOf(name))

\* a step of the call op
StepOf(op) == last'.op = op /\ calls' = calls + 1
\* the call of the step returned false and changed neither the tree nor the
\* free-map
Refused ==
  /\ ~panicked'
  /\ last'.ret = 0
  /\ tree' = tree
  /\ free_map' = free_map

\* C15: filesys_create returns false and adds no directory entry when the name
\* is empty, when its final component has more than NAME_MAX characters or
\* when the name already exists in the target directory; a name whose final
\* component has NAME_MAX characters, in an existing directory, with a free
\* sector, is accepted.
C15_CreateChecksName ==
  [][StepOf("create") =>
       \E t \in {last'.off} : \E name \in {last'.buf} :
         /\ (\/ Len(name) = 0
             \/ Len(FinalOf(name)) > NAME_MAX
             \/ TargetOf(t, name) /= NONE)
              => /\ ~panicked'
                 /\ last'.ret = 0
                 /\ \A s \in DOMAIN tree : tree'[s].ents = tree[s].ents
         /\ (/\ Len(FinalOf(name)) = NAME_MAX
             /\ ParentOf(t, name) \in DOMAIN tree
             /\ inode_is_dir(tree[ParentOf(t, name)])
             /\ TargetOf(t, name) = NONE
             /\ free_map_allocate(free_map) /= NONE)
              => /\ ~panicked'
                 /\ last'.ret = 1
                 /\ dir_lookup(tree'[ParentOf(t, name)].ents, FinalOf(name))
                      = last'.ino
  ]_vars

\* C16: filesys_remove returns false and changes no directory entry, no inode
\* and not the free-map when the final component of the path is "." or "..",
\* with or without trailing slashes, or when the path names a directory that
\* has entries.
C16_RemoveRefuses ==
  [][StepOf("remove") =>
       \E t \in {last'.off} : \E name \in {last'.buf} :
         (\/ FinalOf(name) \in {Dot, DotDot}
          \/ /\ TargetOf(t, name) /= NONE
             /\ inode_is_dir(tree[TargetOf(t, name)])
             /\ DOMAIN tree[TargetOf(t, name)].ents /= {})
           => Refused
  ]_vars

\* C17: the parent of the root directory is the root directory: from the root,
\* a path of any number of ".." components resolves to ROOT_DIR_SECTOR in
\* dir_of_name, and filesys_open and filesys_chdir of it yield the directory
\* at ROOT_DIR_SECTOR.
C17_RootIsItsParent ==
  [][(/\ StepOf("open") \/ StepOf("chdir")
      /\ last'.buf \in {Up(n) : n \in 1 .. MaxUp}
      /\ cwd[last'.off] \in {NONE, ROOT_DIR_SECTOR})
       => /\ tree[ROOT_DIR_SECTOR].parent_dir = ROOT_DIR_SECTOR
          /\ dir_of_name(tree, cwd[last'.off], StrOf(last'.buf)) = ROOT_DIR_SECTOR
          /\ ~panicked'
          /\ last'.ino = ROOT_DIR_SECTOR
  ]_vars

\* C19: the descriptors syscall_open returns to a process start at 2 and
\* increase; 0 and 1 are never returned; no descriptor is twice in a fd_list.
C19_FdsStartAtTwo ==
  \A t \in Clients :
    /\ opens[t] /= <<>> => opens[t][1] = 2
    /\ \A i, j \in 1 .. Len(opens[t]) : i < j => opens[t][i] < opens[t][j]
    /\ \A i \in 1 .. Len(opens[t]) : opens[t][i] \notin {0, 1}
    /\ \A i, j \in 1 .. Len(fds[t]) : fds[t][i].fd = fds[t][j].fd => i = j

(***************************************************************************)
(* Processes: syscall_exec, syscall_exit, syscall_wait.  ps[p] is the      *)
(* struct thread of process p; state is "none" before the process exists,  *)
(* "run", "wait" inside the sema_down of syscall_wait, "dead" after        *)
(* thread_exit.                                                            *)
(***************************************************************************)
\* the values a process exits with
ExitStatuses == {0, 1}

\* the file system and the cache, which these calls do not touch
fsVars == <<free_map, blk, ahead, open_inodes, dir, rel, owned, content, hole>>
poolVars == <<cacheVars, device, threadVars, flushVars, shutdown, latest,
              expect, wover, since>>

\* process_execute: the child gets the next tid and is put on the caller's
\* child_list
syscall_exec(p) ==
  /\ ~panicked
  /\ calls < MaxOps
  /\ calls' = calls + 1
  /\ ps[p].state = "run"
  /\ \E c \in Pids :
       /\ ps[c].state = "none"
       /\ \A q \in Pids : ps[q].state = "none" => c <= q
       /\ ps' = [ps EXCEPT ![c] = [NoProcess EXCEPT !.state = "run",
                                                     !.parent = p,
                                                     !.creator = p],
                           ![p].child_list = @ \cup {c}]
       /\ last' = Did("exec", c, p, 0, c, <<>>)
  /\ UNCHANGED <<wrets, panicked>>
  /\ UNCHANGED <<fsVars, poolVars, openVars, pathVars, createVars>>

\* the struct thread of the parent after its child p has exited with status:
\* syscall_exit takes p off child_list and appends a finished_elem;
\* thread_exit hands the status to a parent that waits for p and wakes it
ParentAfterExit(par, p, status) ==
  [par EXCEPT
     !.child_list = @ \ {p},
     !.finished_list = Append(@, [tid |-> p, status |-> status]),
     !.wait_exit = IF par.is_waiting /\ par.waiting_now = p THEN status ELSE @,
     !.wait_sema = IF par.is_waiting /\ par.waiting_now = p THEN @ + 1 ELSE @]

\* syscall_exit (status) by process p
syscall_exit(p, status) ==
  /\ ~panicked
  /\ calls < MaxOps
  /\ calls' = calls + 1
  /\ ps[p].state = "run"
  /\ ps' = [q \in Pids |->
              IF q = p THEN [ps[p] EXCEPT !.state = "dead"]
              ELSE IF q = ps[p].parent THEN ParentAfterExit(ps[q], p, status)
              ELSE IF ps[q].parent = p THEN [ps[q] EXCEPT !.parent = NONE]
              ELSE ps[q]]
  /\ last' = Did("exit", p, p, 0, status, <<>>)
  /\ UNCHANGED <<wrets, panicked>>
  /\ UNCHANGED <<fsVars, poolVars, openVars, pathVars, createVars>>

\* the positions of the finished_elem of tid t in a finished_list
FinishedOf(list, t) == {i \in 1 .. Len(list) : list[i].tid = t}

\* syscall_wait (t) by process p up to its return or its sema_down
syscall_wait(p, t) ==
  /\ ~panicked
  /\ calls < MaxOps
  /\ calls' = calls + 1
  /\ ps[p].state = "run"
  /\ \E cur \in {ps[p]} :
     \E find_succ \in {t \in cur.child_list} :
     \E find_succ2 \in {~find_succ /\ FinishedOf(cur.finished_list, t) /= {}} :
       IF \/ cur.is_waiting
          \/ cur.child_list = {} /\ cur.finished_list = <<>>
          \/ ~find_succ /\ ~find_succ2
         THEN /\ wrets' = [wrets EXCEPT ![<<p, t>>] = Append(@, -1)]
              /\ last' = Did("wait", t, p, 0, -1, <<>>)
              /\ UNCHANGED ps
       ELSE IF find_succ
         THEN /\ ps' = [ps EXCEPT ![p].waiting_now = t,
                                  ![p].is_waiting = TRUE,
                                  ![p].state = "wait"]
              /\ UNCHANGED <<wrets, last>>
       ELSE \E i \in {Min(FinishedOf(cur.finished_list, t))} :
              /\ ps' = [ps EXCEPT
                          ![p].wait_exit = cur.finished_list[i].status,
                          ![p].finished_list =
                             [k \in 1 .. (Len(@) - 1) |->
                                IF k < i THEN @[k] ELSE @[k + 1]]]
              /\ wrets' = [wrets EXCEPT ![<<p, t>>] =
                             Append(@, cur.finished_list[i].status)]
              /\ last' = Did("wait", t, p, 0, cur.finished_list[i].status, <<>>)
  /\ UNCHANGED panicked
  /\ UNCHANGED <<fsVars, poolVars, openVars, pathVars, createVars>>

\* syscall_wait from the return of sema_down (&cur->wait_sema) on
syscall_wait_woken(p) ==
  /\ ~panicked
  /\ ps[p].state = "wait"
  /\ ps[p].wait_sema > 0
  /\ ps' = [ps EXCEPT ![p].wait_sema = @ - 1,
                      ![p].waiting_now = NONE,
                      ![p].is_waiting = FALSE,
                      ![p].state = "run"]
  /\ wrets' = [wrets EXCEPT ![<<p, ps[p].waiting_now>>] =
                 Append(@, ps[p].wait_exit)]
  /\ last' = Did("wait", ps[p].waiting_now, p, 0, ps[p].wait_exit, <<>>)
  /\ UNCHANGED <<panicked, calls>>
  /\ UNCHANGED <<fsVars, poolVars, openVars, pathVars, createVars>>

NextWait ==
  \/ \E p \in Pids : syscall_exec(p)
  \/ \E p \in Pids, s \in ExitStatuses : syscall_exit(p, s)
  \/ \E p \in Pids, t \in Pids : syscall_wait(p, t)
  \/ \E p \in Pids : syscall_wait_woken(p)

\* the processes of a freshly booted kernel and the calls they make
SpecWait == InitInode /\ [][NextWait]_vars

\* the waits of parent p for child c that returned something else than -1
GotStatus(p, c) == {i \in 1 .. Len(wrets[<<p, c>>]) : wrets[<<p, c>>][i] /= -1}

\* C18: for each child, at most one syscall_wait of the parent returns the
\* child's exit status; a wait for a process that is not a child of the caller
\* or for a child that was waited for before returns -1.
C18_OneWaitPerChild ==
  \A p, c \in Pids :
    /\ Cardinality(GotStatus(p, c)) <= 1
    /\ ps[c].creator /= p => GotStatus(p, c) = {}

(***************************************************************************)
(* filesys_create called by several threads.  syscall_create and           *)
(* syscall_mkdir call it without taking a lock, and a thread can lose the  *)
(* processor inside dir_add, between the lookup of the name and the write  *)
(* of the entry (both go through the buffer cache, which blocks).          *)
(***************************************************************************)
\* filesys_create (name, 0, is_dir) up to the lookup of dir_add: a call that
\* fails returns here, a call that found the name free goes on to write the
\* entry
filesys_create_lookup(t, name, is_dir) ==
  /\ ~panicked
  /\ calls < MaxOps
  /\ calls' = calls + 1
  /\ crt[t].pc = "idle"
  /\ IF Len(name) = 0 \/ get_filename_length(name) > NAME_MAX
       THEN /\ last' = Did("create", NONE, t, 0, 0, name)
            /\ UNCHANGED <<tree, free_map, panicked, crt>>
       ELSE \E smashed \in Smash(name) :
            \E r \in {FsCreate(tree, free_map, cwd[t], name, is_dir)} :
              IF smashed \/ r.bad
                THEN /\ panicked' = TRUE
                     /\ last' = Did("create", NONE, t, 0, 0, name)
                     /\ UNCHANGED <<tree, free_map, crt>>
              ELSE IF ~r.ok
                THEN /\ free_map' = r.fm
                     /\ last' = Did("create", NONE, t, 0, 0, name)
                     /\ UNCHANGED <<tree, panicked, crt>>
              ELSE /\ free_map' = r.fm
                   /\ tree' = Put(tree, r.ino, r.tree[r.ino])
                   /\ crt' = [crt EXCEPT ![t] =
                                [pc |-> "add", name |-> name, is_dir |-> is_dir,
                                 dr |-> r.dr,
                                 filename |-> div_part(name).filename,
                                 inode_sector |-> r.ino,
                                 data_sector |-> r.tree[r.ino].sectors]]
                   /\ UNCHANGED <<last, panicked>>
  /\ UNCHANGED <<cwd, next_fd, fds, opens, won>>
  /\ UNCHANGED <<blk, ahead, open_inodes, dir, rel, owned, content, hole>>
  /\ UNCHANGED <<poolVars, openVars, procVars>>

\* the rest of dir_add: the entry is written, filesys_create returns true
filesys_create_add(t) ==
  /\ ~panicked
  /\ crt[t].pc = "add"
  /\ tree' = [tree EXCEPT ![crt[t].dr].ents =
                Put(@, crt[t].filename, crt[t].inode_sector)]
  /\ won' = [won EXCEPT ![t] = @ \cup {<<crt[t].dr, crt[t].filename>>}]
  /\ crt' = [crt EXCEPT ![t] = NoCreate]
  /\ last' = Did("create", crt[t].inode_sector, t, 0, 1, crt[t].name)
  /\ UNCHANGED <<cwd, next_fd, fds, opens, free_map, panicked, calls>>
  /\ UNCHANGED <<blk, ahead, open_inodes, dir, rel, owned, content, hole>>
  /\ UNCHANGED <<poolVars, openVars, procVars>>

\* the names the threads create
CreatePaths == {X(1), Sl \o X(1), X(2)}

NextCreate ==
  \/ \E t \in Clients, p \in CreatePaths, d \in BOOLEAN :
       filesys_create_lookup(t, p, d)
  \/ \E t \in Clients : filesys_create_add(t)

\* threads that create files and directories in the root directory
SpecCreate == InitInode /\ [][NextCreate]_vars

\* the threads inside filesys_create
Creating == {t \in Clients : crt[t].pc /= "idle"}

\* C20: the calls that change a directory are serialised by the global file
\* system lock: no two threads are inside one of them at the same time, and
\* two concurrent creates of one name in one directory never both return true.
C20_CreatesSerialized ==
  /\ Cardinality(Creating) <= 1
  /\ \A t1, t2 \in Clients : t1 /= t2 => won[t1] \cap won[t2] = {}

(***************************************************************************)
(* Properties of eviction, the write-back thread and the slot protocol     *)
(***************************************************************************)
\* an entry cache_force_one (temp, false) would release: it holds a sector and
\* no reader or writer holds it
IdleEntry(j) == flag[j] /= B_VALID /\ ~InUse(j)

\* thread t is in cache_eviction, looking at the least recently used entry,
\* which a reader or a writer holds, while another entry is idle
LruHeldOtherIdle(t) ==
  /\ th[t].pc = "evict"
  /\ th[t].pos = Last(lru)
  /\ InUse(th[t].pos)
  /\ \E j \in Entries : IdleEntry(j)

\* C21: eviction cannot fail: when the least recently used entry is held by a
\* reader or a writer and another entry is idle, cache_eviction does not
\* return without having released an entry; it moves on to an idle entry.
C21_EvictionMovesOn ==
  [][\A t \in Procs :
       (LruHeldOtherIdle(t) /\ th'[t] /= th[t]) => th'[t].pc /= "getfree"]_vars

(***************************************************************************)
(* cacheWriteBackThread with its device write as a step of its own: the    *)
(* thread sleeps in block_write, and the other threads run, between the    *)
(* test of the DIRTY bit and "flag -= B_DIRTY".                            *)
(***************************************************************************)
\* i++ of the for loop; after the last entry the thread sleeps again
FlusherNext ==
  /\ fl_i' = IF fl_i + 1 < MaxCacheSize THEN fl_i + 1 ELSE 0
  /\ fl_pc' = IF fl_i + 1 < MaxCacheSize THEN "acq" ELSE "sleep"

\* if (flag & B_DIRTY) block_write (fs_device, sec, data); for an entry that
\* is not DIRTY: cache_read_release and i++
FlusherVisit ==
  /\ UNCHANGED inodeVars
  /\ Running
  /\ fl_pc = "write"
  /\ IF HasBit(flag[fl_i], B_DIRTY)
       THEN IF sec[fl_i] \notin Sectors
              THEN \* block_write past the device: PANIC in the block layer
                   /\ panicked' = TRUE
                   /\ UNCHANGED <<reader_count, device, fl_pc, fl_i>>
              ELSE /\ device' = [device EXCEPT ![sec[fl_i]] = data[fl_i]]
                   /\ fl_pc' = "clear"
                   /\ UNCHANGED <<reader_count, fl_i, panicked>>
       ELSE IF ReadReleaseOk(reader_count[fl_i])
              THEN /\ reader_count' = [reader_count EXCEPT
                                         ![fl_i] = ReadReleaseCount(@)]
                   /\ FlusherNext
                   /\ UNCHANGED <<device, panicked>>
              ELSE /\ panicked' = TRUE
                   /\ UNCHANGED <<reader_count, device, fl_pc, fl_i>>
  /\ UNCHANGED <<sec, flag, data, cache_lock, lru, threadVars, shutdown, ghostVars>>

\* block_write has returned: flag -= B_DIRTY; cache_read_release; i++
FlusherClear ==
  /\ UNCHANGED inodeVars
  /\ Running
  /\ fl_pc = "clear"
  /\ flag' = [flag EXCEPT ![fl_i] = @ - B_DIRTY]
  /\ IF ReadReleaseOk(reader_count[fl_i])
       THEN /\ reader_count' = [reader_count EXCEPT ![fl_i] = ReadReleaseCount(@)]
            /\ FlusherNext
            /\ UNCHANGED panicked
       ELSE /\ panicked' = TRUE
            /\ UNCHANGED <<reader_count, fl_pc, fl_i>>
  /\ UNCHANGED <<sec, data, cache_lock, lru, device, threadVars, shutdown, ghostVars>>

\* one client thread, its read-ahead helpers and the write-back thread
NextFlusher ==
  \/ NextThreads
  \/ FlusherWake \/ FlusherAcquire \/ FlusherVisit \/ FlusherClear

SpecFlusher == InitSingle /\ [][NextFlusher]_vars

\* a step of the write-back thread
FlusherStep == fl_pc' /= fl_pc \/ (fl_pc \in {"write", "clear"} /\ panicked')
\* the step that visits the entry: the DIRTY test and the device write
VisitStep == fl_pc = "write" /\ FlusherStep
\* the step that clears the DIRTY bit
ClearStep == fl_pc = "clear" /\ FlusherStep
\* the BUSY bit of every entry
BusyBits == [i \in Entries |-> HasBit(flag[i], B_BUSY)]

\* C22: each pass of the write-back thread writes every entry that is DIRTY
\* when visited to the device at the entry's sector and clears its DIRTY bit
\* while holding reader access to the entry; it never writes an entry while a
\* writer holds it, and it leaves sector, data and BUSY bit of the entry
\* unchanged.
C22_FlusherPass ==
  [][/\ VisitStep =>
          /\ reader_count[fl_i] > 0
          /\ HasBit(flag[fl_i], B_DIRTY) =>
                /\ ~HasBit(flag[fl_i], B_WRITER)
                /\ sec[fl_i] \in Sectors
                /\ device' = [device EXCEPT ![sec[fl_i]] = data[fl_i]]
     /\ ClearStep =>
          /\ reader_count[fl_i] > 0
          /\ HasBit(flag[fl_i], B_DIRTY)
          /\ ~HasBit(flag'[fl_i], B_DIRTY)
     /\ FlusherStep => UNCHANGED <<sec, data, BusyBits>>]_vars

\* client t is in a cache_write whose cacheGetIdx found the sector
WriteHit(t) == th[t].op = "write" /\ th[t].hit
\* ... and takes writer access and copies its bytes in this step
WriteHitCopies(t) == WriteHit(t) /\ th[t].pc = "acquire" /\ th'[t].pc = "release"
\* ... and returns in this step
WriteHitReturns(t) == WriteHit(t) /\ th[t].pc = "release" /\ th'[t].pc = "idle"
\* a step of thread t inside cache_write after the hit
WriteHitStep(t) == WriteHit(t) /\ th'[t] /= th[t]

\* the steps that write to the device: cache_force_one in cache_eviction, the
\* write-back thread's visit of an entry, cache_flush
ForceStep == \E t \in Procs : th[t].pc = "evict_force" /\ th'[t].pc = "evict"
WriteBackStep == fl_pc = "write" /\ fl_pc' /= fl_pc
FlushStep == ~shutdown /\ shutdown'

\* C23: cache_write is write-back: a cache_write (s, X) that hits the cache
\* performs no device write, copies X into the entry under writer access and
\* leaves the entry DIRTY; the device changes only through eviction, the
\* write-back thread or cache_flush.
C23_WriteBack ==
  [][/\ \A t \in Clients :
          /\ WriteHitStep(t) => UNCHANGED device
          /\ WriteHitCopies(t) =>
               /\ HasBit(flag'[th[t].buf], B_WRITER)
               /\ data'[th[t].buf] = th[t].val
               /\ HasBit(flag'[th[t].buf], B_DIRTY)
          /\ WriteHitReturns(t) =>
               /\ data[th[t].buf] = th[t].val
               /\ HasBit(flag'[th[t].buf], B_DIRTY)
     /\ device' /= device => (ForceStep \/ WriteBackStep \/ FlushStep)]_vars

\* the threads that hold reader or writer access to entry i: a client between
\* its acquire and its release, a loading thread between cache_write_acquire
\* and cache_write_release, the write-back thread during its visit
AccessHolders(i) ==
  {t \in Procs : th[t].buf = i /\ th[t].pc \in {"release", "load_read"}}
FlusherHolds(i) == fl_i = i /\ fl_pc \in {"write", "clear"}

\* thread t releases the entry it looks at in this step (oneblock_release)
ReleasesEntry(t) == th[t].pc = "evict_force" /\ th'[t].pc = "evict"

\* C24: under every interleaving, at the moment cache_eviction releases an
\* entry (sector <- NONE, flag <- VALID) no thread holds reader or writer
\* access to that entry, and if the entry was DIRTY its data was written to
\* the device at its sector before the release.
C24_EvictionReleasesUnheld ==
  [][\A t \in Procs :
       ReleasesEntry(t) =>
         /\ sec'[th[t].pos] = NONE /\ flag'[th[t].pos] = B_VALID
         /\ ~InUse(th[t].pos)
         /\ AccessHolders(th[t].pos) = {}
         /\ ~FlusherHolds(th[t].pos)
         /\ HasBit(flag[th[t].pos], B_DIRTY) =>
              device'[sec[th[t].pos]] = data[th[t].pos]]_vars

\* thread t is handed entry th[t].buf by cacheGetFree in this step
ClaimsEntry(t) == th[t].pc = "getfree_lock" /\ th'[t].pc = "setsec"
\* the threads that were handed entry i by cacheGetFree and are still in the
\* load they wanted it for
Claimants(i) ==
  {t \in Procs : th[t].buf = i /\ th[t].pc \in {"setsec", "load_wacq", "load_read"}}

\* C25: cacheGetFree returns only an entry whose flag was exactly VALID when
\* it was claimed, with BUSY set before the slot lock is released, and two
\* threads calling cacheGetFree concurrently are never handed the same entry.
C25_GetFreeClaimsValid ==
  [][\A t \in Procs :
       ClaimsEntry(t) =>
         /\ flag[th[t].buf] = B_VALID
         /\ HasBit(flag'[th[t].buf], B_BUSY)
         /\ cache_lock'[th[t].buf] = 0
         /\ Claimants(th[t].buf) = {}]_vars

\* thread t leaves the unlocked scan of cacheGetIdx / returns from the locked
\* comparison in this step
ScanEnds(t) == th[t].pc = "getidx" /\ th'[t] /= th[t]
LockedCompare(t) == th[t].pc = "getidx_lock" /\ th'[t] /= th[t]
\* cacheGetIdx returns NULL to t: the caller goes to cacheGetFree, a helper
\* whose sector is past the device exits
ReturnsNull(t) ==
  \/ th'[t].pc = "getfree"
  \/ t \in Helpers /\ th'[t].pc = "off" /\ th[t].sec >= NumSectors
\* cacheGetIdx returns entry th[t].buf to t: a client goes on to the rw lock,
\* the helper exits
ReturnsEntry(t) ==
  \/ th'[t].pc = "acquire"
  \/ t \in Helpers /\ th'[t].pc = "off" /\ th[t].sec < NumSectors

\* C26: cacheGetIdx (s) returns an entry only if the entry's sector equalled s
\* while the caller held the entry's slot lock; if the sector was reassigned
\* between the unlocked scan and the lock acquisition it returns NULL, and it
\* returns NULL when no entry holds s.
C26_GetIdxRevalidates ==
  [][\A t \in Procs :
       /\ LockedCompare(t) =>
            /\ cache_lock[th[t].buf] = 0
            /\ sec[th[t].buf] = th[t].sec => ReturnsEntry(t)
            /\ sec[th[t].buf] /= th[t].sec => ReturnsNull(t)
       /\ (ScanEnds(t) /\ \A i \in Entries : sec[i] /= th[t].sec)
            => ReturnsNull(t)]_vars

\* the entry a thread's scan matched was reassigned before the thread took the
\* slot lock, and the lock is free for it to take
C26_Witness ==
  \E t \in Procs :
    /\ th[t].pc = "getidx_lock"
    /\ sec[th[t].buf] /= th[t].sec
    /\ sec[th[t].buf] /= NONE
    /\ cache_lock[th[t].buf] = 0

(***************************************************************************)
(* The read-ahead when memory runs out.  Spawn covers the malloc that      *)
(* returns NULL and the thread that starts; thread_create returns          *)
(* TID_ERROR when no page is left for the new thread, cacheLoadBlock does  *)
(* not look at its result and calls sema_down.                             *)
(***************************************************************************)
\* thread_create ("ahead_reader", ...) fails: no helper runs, the ahead_set
\* stays allocated; sema_down (&sema1) on the semaphore initialised to 0
SpawnNoThread(t) ==
  /\ UNCHANGED inodeVars
  /\ Running
  /\ th[t].pc = "spawn"
  /\ th' = [th EXCEPT ![t].pc = "sema_down"]
  /\ sema' = [sema EXCEPT ![t] = 0]
  /\ UNCHANGED <<cacheVars, device, flushVars, panicked, shutdown, ghostVars>>

\* one client thread and its read-ahead helpers, with and without memory for
\* the read-ahead
NextAhead ==
  \/ NextThreads
  \/ \E t \in Clients : SpawnNoThread(t)

SpecAhead == InitSingle /\ [][NextAhead]_vars

(***************************************************************************)
(* Properties of the read-ahead handshake                                  *)
(***************************************************************************)
\* the positions of a helper before its sema_up, and after it
BeforeSignal == {"getidx", "getidx_lock", "getfree", "getfree_lock", "evict",
                 "evict_force", "setsec"}
BeforeRead == {"load_wacq", "load_read"}
\* helper h exists and takes a step
HelperStep(h) == th[h].pc /= "off" /\ th'[h] /= th[h]
\* the sector of helper h is held by the entry its cacheGetIdx looks at
AheadCached(h) ==
  \/ th[h].pc = "getidx_lock" /\ sec[th[h].buf] = th[h].sec
\* no entry holds the sector of helper h and the sector is past the device
AheadPastDevice(h) ==
  /\ th[h].pc \in {"getidx", "getidx_lock"}
  /\ th[h].sec >= NumSectors
\* the spawner of helper h
SpawnerOf(h) == th[h].parent

\* the handshake, step by step: a helper signals in the step that stores the
\* sector into the entry it claimed, with the device read still to come, or in
\* the step that finds the sector cached or past the device, and then it exits
\* with no entry claimed and nothing read; no other step of a helper signals
HandshakeStep(h) ==
  IF th[h].pc \in BeforeSignal /\ th'[h].pc \notin BeforeSignal
    THEN /\ sema'[SpawnerOf(h)] = sema[SpawnerOf(h)] + 1
         /\ UNCHANGED <<data, device>>
         /\ \/ /\ th[h].pc = "setsec"
               /\ th'[h].pc = "load_wacq"
               /\ sec'[th[h].buf] = th[h].sec
            \/ /\ AheadCached(h) \/ AheadPastDevice(h)
               /\ th'[h].pc = "off"
               /\ UNCHANGED <<sec, flag>>
    ELSE /\ UNCHANGED sema
         /\ (AheadCached(h) \/ AheadPastDevice(h)) => th[h].pc = "getidx"

\* a spawner waits only for the signal, never for the device read: when it is
\* in sema_down and the semaphore is down, the helper of this load has not
\* signalled yet; the semaphore is never signalled twice
SpawnerNotHeld ==
  /\ \A t \in Clients : sema[t] <= 1
  /\ \A t \in Clients :
       (th[t].pc = "sema_down" /\ sema[t] = 0)
         => \E h \in Helpers : SpawnerOf(h) = t /\ th[h].pc \in BeforeSignal

NoReadAhead(t) ==
  /\ th[t].pc = "spawn"
  /\ th'[t] /= th[t]
  /\ \A h \in Helpers : th'[h] = th[h]
\* client t waits on its semaphore, which is down, and no helper is there to
\* signal it
HeldForever(t) ==
  /\ th[t].pc = "sema_down"
  /\ sema[t] = 0
  /\ \A h \in Helpers : ~(SpawnerOf(h) = t /\ th[h].pc \in BeforeSignal)

\* C28: read-ahead is best-effort: when the memory needed for read-ahead
\* cannot be obtained (the request record, or the helper thread that would
\* consume it), the load of sector s still completes and returns the entry
\* holding s, without blocking on the handshake semaphore.
C28_ReadAheadBestEffort ==
  /\ [][\A t \in Clients :
          NoReadAhead(t) => (th'[t].pc = "acquire" /\ th'[t].buf = th[t].buf)]_vars
  /\ [](\A t \in Clients : ~HeldForever(t))

(***************************************************************************)
(* The index of a file, one call of byte_to_sector at a time               *)
(***************************************************************************)
\* the positions byte_to_sector is called with: the direct range, the
\* indirect range and two indirect blocks of the double-indirect range
BtsPositions ==
  0 .. (MAX_DIRECTS + MAX_INDIRECTS + 2 * PtrsPerBlock * BLOCK_SECTOR_SIZE - 1)

\* byte_to_sector (inode, pos) as inode_read_at and inode_write_at call it
ByteToSector(sector, pos) ==
  /\ ~panicked
  /\ calls < MaxOps
  /\ calls' = calls + 1
  /\ sector \in DOMAIN open_inodes
  /\ \E b \in {byte_to_sector(Kernel, open_inodes[sector].data, pos)} :
        IF b.c.panic
          THEN /\ panicked' = TRUE
               /\ UNCHANGED <<blk, ahead, last>>
          ELSE /\ blk' = b.c.blk
               /\ ahead' = b.c.ahead
               /\ last' = Did("bts", sector, pos, 0, b.sec, <<>>)
               /\ UNCHANGED panicked
  /\ UNCHANGED <<free_map, open_inodes, dir, rel, owned, content, hole>>
  /\ UNCHANGED cacheAll

NextIndex ==
  \/ \E n \in Names, z \in CreateSizes : filesys_create(n, z)
  \/ \E n \in Names : filesys_open(n)
  \/ \E s \in FsSectors, z \in WriteSizes, o \in WriteOffsets : inode_write_at(s, z, o)
  \/ \E s \in FsSectors, p \in BtsPositions : ByteToSector(s, p)
  \/ \E q \in FsSectors : AheadLoad(q)

SpecIndex == InitInode /\ [][NextIndex]_vars

\* the reference: the file is a row of sectors numbered from 0; sector n of
\* the file is named by direct slot n, then by the slots of the indirect
\* blocks in order, then by the slots of the indirect blocks the
\* double-indirect block names, in order.  r.sec is what a slot holds, r.c
\* the cache after the block was read; an index block that does not exist
\* names nothing.
SlotOf(r, j) ==
  IF r.sec = NONE THEN r
  ELSE Bts(At(Words(ReadBlock(r.c, r.sec)), j), COND_block_read(r.c, r.sec))

FileSector(c, id, n) ==
  IF n < NUM_OF_DIRECTS THEN id.d_blocks[n]
  ELSE IF n < IndirectEnd
    THEN SlotOf(Bts(id.ind_blocks[(n - NUM_OF_DIRECTS) \div PtrsPerBlock], c),
                (n - NUM_OF_DIRECTS) % PtrsPerBlock).sec
  ELSE SlotOf(SlotOf(Bts(id.d_ind_blocks, c), (n - IndirectEnd) \div PtrsPerBlock),
              (n - IndirectEnd) % PtrsPerBlock).sec

\* the range rule: beyond the indirect range a position at or past the
\* length is in no sector
RangeRule(c, id, pos) ==
  IF pos >= MAX_DIRECTS + MAX_INDIRECTS /\ pos >= id.length THEN NONE
  ELSE FileSector(c, id, pos \div BLOCK_SECTOR_SIZE)

\* pos is a position of the file, or lies beyond the indirect range
InRule(id, pos) == pos < id.length \/ pos >= MAX_DIRECTS + MAX_INDIRECTS

\* a call of byte_to_sector has returned
BtsReturns == last'.op = "bts" /\ calls' = calls + 1 /\ ~panicked'

\* every call the rule speaks of returns
BtsTotal ==
  ~panicked =>
    \A s \in DOMAIN open_inodes : \A pos \in BtsPositions :
      InRule(open_inodes[s].data, pos)
        => ~byte_to_sector(Kernel, open_inodes[s].data, pos).c.panic

WriteReturns == last'.op = "write" /\ calls' = calls + 1 /\ ~panicked'

\* the write that returns was not refused and ends past the end of the file
WriteGrows ==
  /\ ~WriteDenied(open_inodes[last'.ino])
  /\ last'.off + last'.size > open_inodes[last'.ino].data.length

\* the write that returns ends within the file
WriteWithin == last'.off + last'.size <= open_inodes[last'.ino].data.length

\* the length is off + size, the cache holds the inode sector with the new
\* struct inode_disk, the call returns size
GrownTo ==
  /\ open_inodes'[last'.ino].data.length = last'.off + last'.size
  /\ blk'[last'.ino] = InodeBlock(open_inodes'[last'.ino].data)
  /\ last'.ret = last'.size

\* length, direct, indirect and double-indirect slots are what they were,
\* and no sector was allocated
IndexKept ==
  /\ open_inodes'[last'.ino].data = open_inodes[last'.ino].data
  /\ free_map' = free_map

\* the length of an inode that stays open does not go down
LengthKept ==
  \A s \in (DOMAIN open_inodes) \cap (DOMAIN open_inodes') :
    open_inodes'[s].data.length >= open_inodes[s].data.length

FileSlots == 0 .. (IndirectEnd + PtrsPerBlock * PtrsPerBlock - 1)

\* slot n of the index of the open inode s names a sector, the index blocks
\* being read through the cache
SlotAllocated(s, n) == FileSector(Kernel, open_inodes[s].data, n) /= NONE

\* C31: after any sequence of creates and growing writes the allocated index
\* slots of an inode are a prefix of the slots in logical order (direct slots,
\* then each indirect block's slots in order, then the double-indirect tree in
\* order) of ceil(length/S) slots, and every index block the growth modified,
\* one it started in the middle of included, holds its new slots when it is
\* read back.
C31_ContiguousAllocation ==
  ~panicked =>
    \A s \in OpenInodes : \A n \in FileSlots :
      SlotAllocated(s, n) <=> n < bytes_to_sectors(open_inodes[s].data.length)

(***************************************************************************)
(* The order of the releases of inode_close                                *)
(***************************************************************************)
\* the slots of an index array before its first -1, as a list
Leading(ptrs) ==
  [j \in 1 .. Cardinality({k \in DOMAIN ptrs :
                             \A i \in 0 .. k : i \in DOMAIN ptrs /\ ptrs[i] /= NONE})
     |-> ptrs[j - 1]]

\* the releases for the indirect blocks ptrs[k], ptrs[k + 1], ...: the data
\* sectors a block names before its first -1, then the block; nothing after a
\* block that had a -1 nor from a slot that is -1 on.  g.list is the list so
\* far, g.c the cache the blocks are read through.
RECURSIVE GroupsInOrder(_, _, _)
GroupsInOrder(g, ptrs, k) ==
  IF k \notin DOMAIN ptrs \/ ptrs[k] = NONE THEN g
  ELSE LET named == Leading(Words(ReadBlock(g.c, ptrs[k])))
           g1 == [list |-> g.list \o named \o <<ptrs[k]>>,
                  c |-> COND_block_read(g.c, ptrs[k])]
       IN IF Len(named) < PtrsPerBlock THEN g1
          ELSE Only({GroupsInOrder(x, ptrs, k + 1) : x \in {g1}})

\* the order of destruction: the inode sector, the direct data sectors, the
\* groups of the indirect blocks, the groups of the children of the
\* double-indirect block and the double-indirect sector
ReleaseOrder(c, sector, id) ==
  LET g == GroupsInOrder([list |-> <<sector>> \o Leading(id.d_blocks), c |-> c],
                         id.ind_blocks, 0)
  IN IF id.d_ind_blocks = NONE THEN g.list
     ELSE GroupsInOrder([list |-> g.list,
                         c |-> COND_block_read(g.c, id.d_ind_blocks)],
                        Words(ReadBlock(g.c, id.d_ind_blocks)), 0).list
          \o <<id.d_ind_blocks>>

\* the last opener of the removed inode s closes it
LastCloseStep(s) ==
  /\ calls' = calls + 1
  /\ ~panicked'
  /\ last'.op = "close"
  /\ last'.ino = s
  /\ s \in DOMAIN open_inodes
  /\ open_inodes[s].removed
  /\ s \notin DOMAIN open_inodes'

\* filesys_remove removes the inode s, which nobody has open
RemoveClosesStep(s) ==
  /\ calls' = calls + 1
  /\ ~panicked'
  /\ last'.op = "remove"
  /\ last'.ino = s
  /\ last'.ret = 1
  /\ s \notin DOMAIN open_inodes

\* C32: on the last close of a removed inode the sectors are released in
\* this order: the inode sector, each allocated direct data sector, for each
\* indirect block its allocated data sectors and then the indirect sector
\* (stopping at the first NONE slot), for the double-indirect block each child
\* indirect block in the same way and then the double-indirect sector.
C32_ReleaseOrder ==
  [][\A s \in FsSectors :
       /\ LastCloseStep(s) =>
            /\ rel'.ino = s
            /\ rel'.list = ReleaseOrder(Kernel, s, open_inodes[s].data)
       /\ RemoveClosesStep(s) =>
            /\ rel'.ino = s
            /\ rel'.list = ReleaseOrder(InodeOpen(Kernel, open_inodes, s).c, s,
                                        InodeOpen(Kernel, open_inodes, s).inodes[s].data)]_vars

\* a removed file with sectors in all three ranges was closed by its last
\* opener and the sectors released are those it owned
C32_Witness ==
  /\ rel.ino /= NONE
  /\ last.op = "close"
  /\ Len(rel.list) >= 1 + IndirectEnd + NUM_OF_INDIRECTS + 3
  /\ RangeOf(rel.list) = rel.owned
  /\ ~panicked

(***************************************************************************)
(* Path resolution, one call of dir_of_name at a time                      *)
(***************************************************************************)
\* the strings dir_of_name is called with: a null pointer, the empty string,
\* absolute and relative paths of directories that exist, with "." , with
\* doubled and trailing '/', through a file, through a name that is missing
ResolvePaths ==
  {NullStr} \cup
  {StrOf(p) : p \in {<<>>, Sl, X(1), Sl \o X(1), X(1) \o Sl, X(1) \o Sl \o X(1),
                     X(1) \o Sl \o Sl \o X(1), Sl \o Sl \o X(1), Dot,
                     Dot \o Sl \o X(1), X(1) \o Sl \o Dot, X(2), X(2) \o Sl \o X(1),
                     X(1) \o Sl \o X(2), X(3), X(3) \o Sl \o X(1)}}
\* the paths the tree is built with: directories x, x/x, the file xx
MkdirPaths == {X(1), X(1) \o Sl \o X(1)}
MkfilePaths == {X(2)}
CdPaths == {X(1), Sl, X(1) \o Sl \o X(1)}

\* dir_of_name (s) by thread t
DirOfName(t, s) ==
  /\ ~panicked
  /\ calls < MaxOps
  /\ calls' = calls + 1
  /\ \E r \in {dir_of_name(tree, cwd[t], s)} :
       IF r = BadSector
         THEN /\ panicked' = TRUE
              /\ UNCHANGED last
         ELSE /\ last' = Did("dir_of_name", r, t, IF s.null THEN 1 ELSE 0,
                             IF r = NONE THEN 0 ELSE 1, s.s)
              /\ UNCHANGED panicked
  /\ UNCHANGED <<tree, cwd, next_fd, fds, opens, free_map>>
  /\ UNCHANGED pathFrame

NextResolve ==
  \/ \E t \in Clients, p \in MkdirPaths : syscall_mkdir(t, p)
  \/ \E t \in Clients, p \in MkfilePaths : syscall_create(t, p)
  \/ \E t \in Clients, p \in CdPaths : syscall_chdir(t, p)
  \/ \E t \in Clients, s \in ResolvePaths : DirOfName(t, s)

SpecResolve == InitInode /\ [][NextResolve]_vars

\* the components of a path: the strings between its '/', empty ones included
RECURSIVE Components(_)
Components(p) ==
  IF \A i \in 1 .. Len(p) : p[i] /= "/" THEN <<p>>
  ELSE Only({<<SubSeq(p, 1, k - 1)>> \o Components(SubSeq(p, k + 1, Len(p))) :
             k \in {Min({j \in 1 .. Len(p) : p[j] = "/"})}})

\* following the components from directory cur: "." and an empty component
\* change nothing, any other component must be an entry of the directory
\* reached so far and be a directory; NONE when one is not
RECURSIVE Follow(_, _, _)
Follow(tr, cur, comps) ==
  IF comps = <<>> THEN cur
  ELSE IF Head(comps) = <<>> \/ Head(comps) = Dot THEN Follow(tr, cur, Tail(comps))
  ELSE IF Head(comps) \notin DOMAIN tr[cur].ents THEN NONE
  ELSE IF tr[tr[cur].ents[Head(comps)]].parent_dir = NONE THEN NONE
  ELSE Follow(tr, tr[cur].ents[Head(comps)], Tail(comps))

\* the thread's current directory, the root when it has none
CurrentDir(t) == IF cwd[t] = NONE THEN ROOT_DIR_SECTOR ELSE cwd[t]

\* resolution as stated: from the root for a path starting with '/', from the
\* current directory otherwise
Resolve(t, s) ==
  IF ~s.null /\ Len(s.s) > 0 /\ s.s[1] = "/"
    THEN Follow(tree, ROOT_DIR_SECTOR, Components(s.s))
    ELSE Follow(tree, CurrentDir(t), IF s.null THEN <<>> ELSE Components(s.s))

\* resolution with the empty string taken for the root
ResolveEmptyIsRoot(t, s) ==
  IF ~s.null /\ (Len(s.s) = 0 \/ s.s[1] = "/")
    THEN Follow(tree, ROOT_DIR_SECTOR, Components(s.s))
    ELSE Follow(tree, CurrentDir(t), IF s.null THEN <<>> ELSE Components(s.s))

\* a call of dir_of_name has returned; the string it was called with
ResolveReturns == last'.op = "dir_of_name" /\ calls' = calls + 1 /\ ~panicked'
ResolveArg == [null |-> last'.size = 1, s |-> last'.buf]

\* C33: dir_of_name returns no directory whenever an intermediate component
\* does not exist or names something that is not a directory; otherwise it
\* returns the directory reached by following the components from the root
\* for a path starting with '/' and from the thread's current directory (the
\* root if unset) otherwise, "." being a no-op and empty components absent.
C33_PathResolution ==
  [][ResolveReturns => last'.ino = Resolve(last'.off, ResolveArg)]_vars

\* C33 as the code has it: the empty string resolves to the root
C33_PathResolution_EmptyIsRoot ==
  [][ResolveReturns => last'.ino = ResolveEmptyIsRoot(last'.off, ResolveArg)]_vars

\* a relative path through a doubled '/' was resolved from a current directory
\* that is not the root, to a directory below it
C33_Witness ==
  /\ last.op = "dir_of_name"
  /\ last.buf = X(1) \o Sl \o Sl \o X(1) \/ last.buf = Dot \o Sl \o X(1)
  /\ cwd[last.off] \notin {NONE, ROOT_DIR_SECTOR}
  /\ last.ret = 1
  /\ last.ino \in DOMAIN tree
  /\ tree[last.ino].parent_dir = cwd[last.off]
  /\ ~panicked

(***************************************************************************)
(* The moves to the front of the LRU list                                  *)
(***************************************************************************)
\* thread t calls cacheUpdate in this step: in cacheGetFree, in cacheGetIdx
\* when it found the sector, at the end of a load, in cache_read / cache_write
MovesEntry(t) ==
  \/ th[t].pc = "getfree_lock" /\ th'[t].pc = "setsec"
  \/ th[t].pc = "getidx_lock" /\ th'[t] /= th[t] /\ SameSector(th[t].buf, th[t].sec)
  \/ th[t].pc = "load_read" /\ th'[t] /= th[t] /\ ~panicked'
  \/ th[t].pc = "acquire" /\ th'[t].pc = "release"

\* the call of cacheUpdate lies between the lock_acquire / lock_try_acquire of
\* the entry's cache_lock and its lock_release: the lock is free when the
\* step takes it, or thread t has held it since an earlier step
UnderSlotLock(t) ==
  \/ th[t].pc \in {"getfree_lock", "getidx_lock"} /\ cache_lock[th[t].buf] = 0
  \/ cache_lock[th[t].buf] = t

\* the LRU list holds every entry of the pool once
LruIsPermutation ==
  /\ Len(lru) = MaxCacheSize
  /\ \A e \in Entries : \E k \in 1 .. Len(lru) : lru[k] = e

\* C34: every move of an entry to the front of the LRU list (by cache_read,
\* cache_write, the load path, the read-ahead helper, cacheGetFree and
\* cacheGetIdx) is made while the thread holds the slot lock of the entry it
\* moves, and the LRU list always is a permutation of the pool's entries.
C34_LruUnderSlotLock ==
  /\ [][\A t \in Procs : MovesEntry(t) => UnderSlotLock(t)]_vars
  /\ []LruIsPermutation

(***************************************************************************)
(* The range of the flag and of the reader count                           *)
(***************************************************************************)
\* C35: in every reachable state the flag of every cache entry is a set of
\* the bits BUSY, DIRTY and WRITER (a value in 0..7) and its reader_count is
\* not negative, although DIRTY and WRITER are cleared by subtraction while
\* another thread can reset the flag to VALID.
C35_FlagInRange ==
  \A i \in Entries :
    /\ flag[i] \in 0 .. (B_BUSY + B_DIRTY + B_WRITER)
    /\ reader_count[i] >= 0

(***************************************************************************)
(* One entry per sector                                                    *)
(***************************************************************************)
\* C36: in every reachable state at most one cache entry holds any given
\* sector (the sectors other than NONE are unique across the pool), also when
\* two threads miss on the same sector at the same time and when a read-ahead
\* helper for s + 1 races with a direct access to s + 1.
C36_SectorsUnique ==
  \A i, j \in Entries : (sec[i] /= NONE /\ sec[i] = sec[j]) => i = j

(***************************************************************************)
(* C37: the assertions of the readers-writer protocol                      *)
(***************************************************************************)
\* thread t is at a cache_write_release: a loading thread after its
\* block_read, a cache_write after its copy
AtWriteRelease(t) ==
  th[t].pc = "load_read" \/ (th[t].pc = "release" /\ th[t].op = "write")
\* thread t is at the cache_read_release of a cache_read
AtReadRelease(t) == th[t].pc = "release" /\ th[t].op = "read"
\* the write-back thread is at its cache_read_release: an entry that is not
\* DIRTY, or the device write has returned
FlusherAtReadRelease ==
  (fl_pc = "write" /\ ~HasBit(flag[fl_i], B_DIRTY)) \/ fl_pc = "clear"

\* C37: the assertions of the readers-writer protocol never fail: every
\* thread that is at cache_write_release finds the WRITER bit set on its
\* entry, and every thread that is at cache_read_release finds reader_count
\* above zero.
C37_RwAssertionsHold ==
  /\ \A t \in Procs :
       /\ AtWriteRelease(t) => HasBit(flag[th[t].buf], B_WRITER)
       /\ AtReadRelease(t) => reader_count[th[t].buf] > 0
  /\ FlusherAtReadRelease => reader_count[fl_i] > 0

(***************************************************************************)
(* C38: a DIRTY entry holds a sector of the device                         *)
(***************************************************************************)
\* C38: in every reachable state an entry with the DIRTY bit set holds a real
\* sector and not NONE, so that no write-back, eviction or flush issues a
\* device write to sector NONE.
C38_DirtyHoldsSector ==
  \A i \in Entries : HasBit(flag[i], B_DIRTY) => sec[i] /= NONE

(***************************************************************************)
(* C39: filesys_create of a name that exists                               *)
(***************************************************************************)
\* this step is a filesys_create that returns false for a name that is in the
\* directory, with room in the free-map for the inode sector and the data
\* sectors of the initial size: inode_create succeeds and dir_add fails
CreateFailsOnName ==
  /\ last'.op = "create" /\ calls' = calls + 1 /\ ~panicked'
  /\ last'.ret = 0 /\ last'.ino /= NONE
  /\ \A n \in Names : n \in DOMAIN dir
  /\ Cardinality(FsSectors \ free_map) >= 1 + bytes_to_sectors(last'.size)

\* C39: a filesys_create that fails because the name already exists leaves
\* the free-map exactly as it was before the call, for every initial size:
\* the inode sector and the data and index sectors allocated by inode_create
\* are released again.
C39_FailedCreateKeepsFreeMap ==
  [][CreateFailsOnName => free_map' = free_map]_vars

\* the same for an initial size of zero, where inode_create allocates nothing
C39_FailedCreateKeepsFreeMap_Empty ==
  [][(CreateFailsOnName /\ last'.size = 0) => free_map' = free_map]_vars

=============================================================================
